---- MODULE Spec2Model ----
(***************************************************************************)
(* Proof-of-Emotion consensus engine: the engine's epoch state machine     *)
(* (src/src/consensus.rs), the Byzantine detector (src/src/byzantine.rs),  *)
(* the checkpoint manager (src/src/checkpoint.rs) and the stake ledger     *)
(* (src/src/staking.rs).                                                   *)
(*                                                                         *)
(* Specifications:                                                         *)
(*   Spec          the engine: registration, transaction submission,       *)
(*                 epochs, checkpoints, crash recovery                     *)
(*   SpecQuorum    the quorum rule of execute_voting as a pure function    *)
(*   SpecDetector  record_vote / record_proposal / cleanup_old_data        *)
(*   SpecLedger    the stake ledger operations                             *)
(***************************************************************************)
EXTENDS Integers, Sequences, FiniteSets, TLC

(***************************************************************************)
(* Bounds of the model.                                                    *)
(***************************************************************************)
MaxEpochs == 2          \* epochs the epoch loop executes
MaxPending == 1         \* transactions in the pending pool
MaxClockSteps == 1      \* advances of the wall clock
MaxCheckpoints == 1     \* checkpoints stored by the manager
MaxCommittee == 25      \* largest committee_size of SpecQuorum
MaxDetectorOps == 3     \* records and events held by the detector in SpecDetector
MaxDetectorEpoch == 2   \* epochs and heights of SpecDetector
MaxLedgerEvents == 2    \* slashing events of SpecLedger
MaxSlashes == 6         \* slashing events of SpecSlash
MaxLedgerEpoch == 1     \* unbonding periods the ledger's epoch runs through
MaxStoredCheckpoints == 2   \* checkpoints stored in SpecCheckpoint
MaxForkBlocks == 3      \* distinct blocks recorded in SpecFork
MaxStarts == 2          \* calls of start that spawn tasks in SpecLifecycle
MaxLifecycleEpochs == 2 \* epochs begun in SpecLifecycle
MaxPoolSize == 2        \* transactions in the pending pool of SpecPool
MaxMemberVotes == 2     \* votes cast in SpecVoting
MaxStrengthCommittee == 50 \* committee members in SpecStrength
MaxStrengthEpochs == 1  \* epochs executed in SpecStrength
MaxLoopTicks == 3       \* ticks of the epoch loop in SpecEpochs
MaxLockEpochs == 2      \* epochs that come to finalize_block in SpecLocks
MaxCommitteeValidators == 4 \* validators registered in SpecCommittee
MaxCommitteeEpochs == 1  \* epochs executed in SpecCommittee
MaxByzantineTicks == 3   \* ticks of the epoch loop in SpecByzantine

(***************************************************************************)
(* Program constants.                                                      *)
(***************************************************************************)
MIN_VALIDATOR_STAKE == 10000
DEFAULT_EMOTIONAL_THRESHOLD == 75
DEFAULT_BYZANTINE_THRESHOLD == 67
MAX_TX_AGE == 300000
TAKE_LIMIT == 1000
ENGINE_SLASH_REPUTATION == 20
MIN_BYZANTINE_THRESHOLD == 51
MAX_BYZANTINE_THRESHOLD == 100
F64_MANTISSA_BITS == 53

Min(a, b) == IF a < b THEN a ELSE b
Max(a, b) == IF a > b THEN a ELSE b

(***************************************************************************)
(* IEEE-754 binary64 arithmetic on non-negative values, as the Rust        *)
(* expressions  n as f64 * (num as f64 / den as f64)  evaluate it.  A      *)
(* double is [sig |-> M, frac |-> f] with value M * 2^-f, where M is a     *)
(* natural number of at most F64_MANTISSA_BITS bits, written as a sequence *)
(* of limbs in base LimbBase, most significant first.                      *)
(***************************************************************************)
LimbBits == 5 + 5
LimbBase == 2 ^ LimbBits

Zeros(n) == [i \in 1..n |-> 0]

RECURSIVE ToLimbs(_)
ToLimbs(n) == IF n = 0 THEN <<>> ELSE Append(ToLimbs(n \div LimbBase), n % LimbBase)

RECURSIVE FromLimbs(_)
FromLimbs(l) ==
    IF l = <<>> THEN 0
    ELSE LimbBase * FromLimbs(SubSeq(l, 1, Len(l) - 1)) + l[Len(l)]

RECURSIVE StripLimbs(_)
StripLimbs(l) == IF l # <<>> /\ l[1] = 0 THEN StripLimbs(Tail(l)) ELSE l

RECURSIVE IncLimbs(_)
IncLimbs(l) ==
    IF l = <<>> THEN <<1>>
    ELSE IF l[Len(l)] < LimbBase - 1
         THEN Append(SubSeq(l, 1, Len(l) - 1), l[Len(l)] + 1)
         ELSE Append(IncLimbs(SubSeq(l, 1, Len(l) - 1)), 0)

\* l * n + carry for a small natural n.
RECURSIVE MulLimbs(_, _, _)
MulLimbs(l, n, carry) ==
    IF l = <<>> THEN ToLimbs(carry)
    ELSE LET t == l[Len(l)] * n + carry
         IN  Append(MulLimbs(SubSeq(l, 1, Len(l) - 1), n, t \div LimbBase),
                    t % LimbBase)

\* (rem * LimbBase^Len(l) + l) divided by a small den: quotient and remainder.
RECURSIVE DivLimbs(_, _, _)
DivLimbs(l, den, rem) ==
    IF l = <<>> THEN [q |-> <<>>, r |-> rem]
    ELSE LET t == rem * LimbBase + Head(l)
             rest == DivLimbs(Tail(l), den, t % den)
         IN  [q |-> <<t \div den>> \o rest.q, r |-> rest.r]

BitLen(n) == CHOOSE k \in 0..LimbBits : n < 2 ^ k /\ (k = 0 \/ 2 ^ (k - 1) <= n)

BigBitLen(l) ==
    LET s == StripLimbs(l)
    IN  IF s = <<>> THEN 0 ELSE (Len(s) - 1) * LimbBits + BitLen(s[1])

\* a > b for limb sequences of the same length
LimbsGreater(a, b) ==
    \E i \in 1..Len(a) : a[i] > b[i] /\ \A j \in 1..(i - 1) : a[j] = b[j]

\* l divided by 2^d (d >= 1): the quotient, and how the discarded part
\* compares to one half of the last kept place.
ShiftRight(l, d) ==
    LET qn == d \div LimbBits
        r == d % LimbBits
        padded == Zeros(Max(0, qn + 1 - Len(l))) \o l
        keep == Len(padded) - qn
        dv == DivLimbs(SubSeq(padded, 1, keep), 2 ^ r, 0)
        disc == <<0, dv.r>> \o SubSeq(padded, keep + 1, Len(padded))
        half == IF r >= 1 THEN <<0, 2 ^ (r - 1)>> \o Zeros(qn)
                ELSE <<0, 0, LimbBase \div 2>> \o Zeros(qn - 1)
    IN  [q |-> StripLimbs(dv.q),
         nonzero |-> \E i \in 1..Len(disc) : disc[i] # 0,
         above |-> LimbsGreater(disc, half),
         tie |-> disc = half]

IsOdd(l) == l # <<>> /\ l[Len(l)] % 2 = 1

\* Round the exact value l * 2^-frac to F64_MANTISSA_BITS significant bits,
\* ties to even.
F64Round(l, frac) ==
    LET d == BigBitLen(l) - F64_MANTISSA_BITS
    IN  IF d <= 0 THEN [sig |-> StripLimbs(l), frac |-> frac]
        ELSE LET sh == ShiftRight(l, d)
                 up == sh.above \/ (sh.tie /\ IsOdd(sh.q))
             IN  [sig |-> IF up THEN IncLimbs(sh.q) ELSE sh.q, frac |-> frac - d]

\* The quotient num as f64 / den as f64 for num, den > 0, correctly rounded.
F64Div(num, den) ==
    LET j == IF num <= den
             THEN CHOOSE k \in 0..20 : den <= num * 2 ^ k /\ num * 2 ^ k < 2 * den
             ELSE 0 - (CHOOSE k \in 0..20 : den * 2 ^ k <= num /\ num < den * 2 ^ (k + 1))
        frac == F64_MANTISSA_BITS - 1 + j
        n == ToLimbs(num * 2 ^ (frac % LimbBits)) \o Zeros(frac \div LimbBits)
        dv == DivLimbs(n, den, 0)
        up == 2 * dv.r > den \/ (2 * dv.r = den /\ IsOdd(dv.q))
    IN  [sig |-> StripLimbs(IF up THEN IncLimbs(dv.q) ELSE dv.q), frac |-> frac]

\* n as f64 * x
F64MulInt(n, x) == F64Round(MulLimbs(x.sig, n, 0), x.frac)

\* x as u64: truncation toward zero.
F64Floor(x) ==
    IF x.frac <= 0 THEN FromLimbs(x.sig) * 2 ^ (0 - x.frac)
    ELSE FromLimbs(ShiftRight(x.sig, x.frac).q)

\* x.ceil() as usize
F64Ceil(x) ==
    IF x.frac <= 0 THEN FromLimbs(x.sig) * 2 ^ (0 - x.frac)
    ELSE LET sh == ShiftRight(x.sig, x.frac)
         IN  FromLimbs(sh.q) + (IF sh.nonzero THEN 1 ELSE 0)

(***************************************************************************)
(* execute_voting: the quorum.                                             *)
(***************************************************************************)
\* required_votes = (committee_size as f64 * (byzantine_threshold as f64 / 100.0)).ceil()
RequiredVotes(committee_size, byzantine_threshold) ==
    F64Ceil(F64MulInt(committee_size, F64Div(byzantine_threshold, 100)))

VotingSuccess(approved_count, committee_size, byzantine_threshold) ==
    approved_count >= RequiredVotes(committee_size, byzantine_threshold)


(***************************************************************************)
(* State.                                                                  *)
(***************************************************************************)
VARIABLES
    config,                \* ConsensusConfig of the engine
    validators,            \* engine registry, in the map's iteration order
    state,                 \* ConsensusState: current_epoch, last_finalized_height
    finalized_blocks,      \* the finalized log
    pending_transactions,  \* the pending pool
    metrics,               \* ConsensusMetrics: successful_epochs, failed_epochs
    now,                   \* wall clock, milliseconds
    is_running,            \* the engine's is_running flag
    epoch_loop,            \* the epoch loop task: "none", "running", "panicked"
    ticks,                 \* history: interval ticks the epoch loops have served
    tasks,                 \* the spawned tasks, each by its place in its code:
                           \* epoch_loops and cleaners, in spawning order
    votes,                 \* detector: (validator, epoch) -> votes
    proposals,             \* detector: (validator, height) -> proposals
    slashing_events,       \* detector: slashing events
    checkpoints,           \* checkpoint manager: stored checkpoints
    total_network_stake,   \* checkpoint manager: total stake
    ledger,                \* stake ledger: id -> Validator
    ledger_initial,        \* history: id -> stake at registration
    ledger_unbonding,      \* history: id -> amount begin_unbonding placed in unbonding
    ledger_epoch,          \* stake ledger: current_epoch
    ledger_events,         \* stake ledger: slashing events
    reward_history,        \* stake ledger: reward distributions
    fork_detector,         \* ForkDetector: blocks_at_height, canonical_chain, forks,
                           \* block_metadata
    last_op                \* history: the last operation whose result is observed

engine_vars == <<config, validators, state, finalized_blocks, pending_transactions,
                 metrics, now, is_running, epoch_loop, ticks, tasks>>
detector_vars == <<votes, proposals, slashing_events>>
checkpoint_vars == <<checkpoints, total_network_stake>>
ledger_vars == <<ledger, ledger_initial, ledger_unbonding, ledger_epoch, ledger_events,
                 reward_history>>
vars == <<engine_vars, detector_vars, checkpoint_vars, ledger_vars, fork_detector, last_op>>

ValidatorIds == {"v1", "v2"}
EmptyMap == [k \in {} |-> <<>>]

\* Option<T>: <<>> is None, <<x>> is Some(x).
None == <<>>
Some(x) == <<x>>

Lookup(map, key) == IF key \in DOMAIN map THEN map[key] ELSE <<>>
Store(map, key, value) ==
    [k \in DOMAIN map \cup {key} |-> IF k = key THEN value ELSE map[k]]

(***************************************************************************)
(* Byzantine detector (src/src/byzantine.rs).                              *)
(***************************************************************************)
\* Vote::new, without signature, timestamp and round.
NewVote(validator_id, block_hash, epoch, emotional_score, approved) ==
    [validator_id |-> validator_id, block_hash |-> block_hash, epoch |-> epoch,
     emotional_score |-> emotional_score, approved |-> approved, reason |-> None]

create_double_voting_event(validator_id, epoch) ==
    [id |-> <<"double-vote", validator_id, epoch>>, validator_id |-> validator_id,
     offense |-> "DoubleSigning", severity |-> "Critical", slashing_rate |-> 15,
     amount |-> 0]

create_double_signing_event(validator_id, height) ==
    [id |-> <<"double-sign", validator_id, height>>, validator_id |-> validator_id,
     offense |-> "DoubleSigning", severity |-> "Critical", slashing_rate |-> 15,
     amount |-> 0]

\* Variant of create_equivocation_event: equivocation rated like a double vote.
create_equivocation_event_critical(validator_id, epoch) ==
    [id |-> <<"equivocation", validator_id, epoch>>, validator_id |-> validator_id,
     offense |-> "DoubleSigning", severity |-> "Critical", slashing_rate |-> 15,
     amount |-> 0]

create_equivocation_event(validator_id, epoch) ==
    [id |-> <<"equivocation", validator_id, epoch>>, validator_id |-> validator_id,
     offense |-> "DoubleSigning", severity |-> "Major", slashing_rate |-> 5,
     amount |-> 0]

\* Same block hash but different approval.
IsDoubleVote(existing_vote, new_vote) ==
    /\ existing_vote.block_hash = new_vote.block_hash
    /\ existing_vote.approved # new_vote.approved

\* Different block hash in the same epoch.
IsEquivocation(existing_vote, new_vote) ==
    existing_vote.block_hash # new_vote.block_hash

\* The loop returns at the first stored vote that conflicts with the new one.
detect_double_voting_internal(existing_votes, new_vote) ==
    LET conflicts == {i \in 1..Len(existing_votes) :
                         \/ IsDoubleVote(existing_votes[i], new_vote)
                         \/ IsEquivocation(existing_votes[i], new_vote)}
        first == CHOOSE i \in conflicts : \A j \in conflicts : i <= j
    IN  IF conflicts = {} THEN None
        ELSE IF IsDoubleVote(existing_votes[first], new_vote)
             THEN Some(create_double_voting_event(new_vote.validator_id, new_vote.epoch))
             ELSE Some(create_equivocation_event(new_vote.validator_id, new_vote.epoch))

IsDoubleSign(existing, new_proposal) == existing.block_hash # new_proposal.block_hash

\* Variant of detect_double_signing_internal: any earlier proposal at the
\* height counts, whatever its hash.
detect_double_signing_internal_any(existing_proposals, new_proposal) ==
    IF existing_proposals # <<>>
    THEN Some(create_double_signing_event(new_proposal.validator_id,
                                          new_proposal.height))
    ELSE None

detect_double_signing_internal(existing_proposals, new_proposal) ==
    IF \E i \in 1..Len(existing_proposals) :
           IsDoubleSign(existing_proposals[i], new_proposal)
    THEN Some(create_double_signing_event(new_proposal.validator_id,
                                          new_proposal.height))
    ELSE None

\* Variant of record_vote: the conflicting vote is stored before the check.
record_vote_stores_first(vs, evs, vote) ==
    LET key == <<vote.validator_id, vote.epoch>>
        existing == Lookup(vs, key)
        event == detect_double_voting_internal(existing, vote)
    IN  [votes |-> Store(vs, key, Append(existing, vote)),
         slashing_events |-> IF event # None THEN Append(evs, event[1]) ELSE evs,
         ok |-> event = None]

\* record_vote on the detector state (vs, evs): the new state and the result.
record_vote(vs, evs, vote) ==
    LET key == <<vote.validator_id, vote.epoch>>
        existing == Lookup(vs, key)
        event == detect_double_voting_internal(existing, vote)
    IN  IF event # None
        THEN [votes |-> Store(vs, key, existing),
              slashing_events |-> Append(evs, event[1]), ok |-> FALSE]
        ELSE [votes |-> Store(vs, key, Append(existing, vote)),
              slashing_events |-> evs, ok |-> TRUE]

\* ProposalEvidence, without timestamp.
NewProposal(validator_id, height, block_hash) ==
    [validator_id |-> validator_id, height |-> height, block_hash |-> block_hash]

\* Variant of record_proposal: the conflict is logged and the proposal is
\* accepted.
record_proposal_accepts(ps, evs, validator_id, height, block_hash) ==
    LET key == <<validator_id, height>>
        evidence == NewProposal(validator_id, height, block_hash)
        existing == Lookup(ps, key)
        event == detect_double_signing_internal(existing, evidence)
    IN  [proposals |-> Store(ps, key, Append(existing, evidence)),
         slashing_events |-> IF event # None THEN Append(evs, event[1]) ELSE evs,
         ok |-> TRUE]

record_proposal(ps, evs, validator_id, height, block_hash) ==
    LET key == <<validator_id, height>>
        evidence == NewProposal(validator_id, height, block_hash)
        existing == Lookup(ps, key)
        event == detect_double_signing_internal(existing, evidence)
    IN  IF event # None
        THEN [proposals |-> Store(ps, key, existing),
              slashing_events |-> Append(evs, event[1]), ok |-> FALSE]
        ELSE [proposals |-> Store(ps, key, Append(existing, evidence)),
              slashing_events |-> evs, ok |-> TRUE]

\* Variant of cleanup_old_data: the votes of the cutoff epoch go as well.
cleanup_old_data_through_cutoff(vs, current_epoch, retention_epochs) ==
    LET cutoff_epoch == Max(0, current_epoch - retention_epochs)
        kept == {k \in DOMAIN vs : k[2] > cutoff_epoch}
    IN  [k \in kept |-> vs[k]]

\* cleanup_old_data: votes of epochs before the cutoff go; proposals stay.
cleanup_old_data(vs, current_epoch, retention_epochs) ==
    LET cutoff_epoch == Max(0, current_epoch - retention_epochs)
        kept == {k \in DOMAIN vs : k[2] >= cutoff_epoch}
    IN  [k \in kept |-> vs[k]]


(***************************************************************************)
(* Stake ledger (src/src/staking.rs).                                      *)
(***************************************************************************)
UNBONDING_PERIOD_EPOCHS == 2016
MAX_COMMISSION == 20
BASE_REWARD_POOL == 100000
MINOR_RATE_PERCENT == 1
MAJOR_RATE_PERCENT == 5
CRITICAL_RATE_PERCENT == 15
MINOR_REPUTATION_PENALTY == 5
MAJOR_REPUTATION_PENALTY == 10
CRITICAL_REPUTATION_PENALTY == 20
INITIAL_REPUTATION == 100

SlashingOffenses == {"PoorEmotionalBehavior", "MissedConsensus", "InvalidBiometric",
                     "DoubleSigning", "Downtime"}

determine_severity(offense) ==
    CASE offense = "PoorEmotionalBehavior" -> "Minor"
      [] offense = "MissedConsensus" -> "Minor"
      [] offense = "InvalidBiometric" -> "Major"
      [] offense = "DoubleSigning" -> "Critical"
      [] offense = "Downtime" -> "Minor"

\* The literals 0.01, 0.05, 0.15 as percentages.
SlashingRatePercent(severity) ==
    CASE severity = "Minor" -> MINOR_RATE_PERCENT
      [] severity = "Major" -> MAJOR_RATE_PERCENT
      [] severity = "Critical" -> CRITICAL_RATE_PERCENT

\* (validator.stake as f64 * slashing_rate) as u64
SlashAmount(stake, severity) ==
    F64Floor(F64MulInt(stake, F64Div(SlashingRatePercent(severity), 100)))

ReputationPenalty(severity) ==
    CASE severity = "Minor" -> MINOR_REPUTATION_PENALTY
      [] severity = "Major" -> MAJOR_REPUTATION_PENALTY
      [] severity = "Critical" -> CRITICAL_REPUTATION_PENALTY

SaturatingSub(a, b) == IF a >= b THEN a - b ELSE 0

Ok(l) == [ledger |-> l, ok |-> TRUE, err |-> "", amount |-> 0]
Err(l, e) == [ledger |-> l, ok |-> FALSE, err |-> e, amount |-> 0]

\* register_validator: an existing entry of the same id is replaced.
ledger_register_validator(l, id, initial_stake, commission) ==
    IF initial_stake < MIN_VALIDATOR_STAKE THEN Err(l, "InsufficientStake")
    ELSE IF commission > MAX_COMMISSION THEN Err(l, "ConfigError")
    ELSE Ok(Store(l, id, [stake |-> initial_stake, locked_stake |-> 0,
                          available_stake |-> initial_stake, unlock_epoch |-> None,
                          reputation |-> INITIAL_REPUTATION, is_active |-> TRUE,
                          commission |-> commission, total_penalties |-> 0]))

\* Variant of SlashedValidator: the validator stays active below min_stake.
SlashedValidator_stays_active(v, severity) ==
    LET slash_amount == SlashAmount(v.stake, severity)
    IN  [v EXCEPT !.stake = SaturatingSub(v.stake, slash_amount),
                  !.total_penalties = @ + slash_amount,
                  !.reputation = SaturatingSub(@, ReputationPenalty(severity))]

\* slash_validator: the validator after the slash.
SlashedValidator(v, severity) ==
    LET slash_amount == SlashAmount(v.stake, severity)
        stake == SaturatingSub(v.stake, slash_amount)
    IN  [v EXCEPT !.stake = stake,
                  !.total_penalties = @ + slash_amount,
                  !.reputation = SaturatingSub(@, ReputationPenalty(severity)),
                  !.is_active = IF stake < MIN_VALIDATOR_STAKE THEN FALSE ELSE @]

ledger_slash_event(validator_id, offense, stake) ==
    LET severity == determine_severity(offense)
    IN  [validator_id |-> validator_id, offense |-> offense, severity |-> severity,
         slashing_rate |-> SlashingRatePercent(severity),
         amount |-> SlashAmount(stake, severity)]

ledger_slash_validator(l, validator_id, offense) ==
    IF validator_id \notin DOMAIN l THEN Err(l, "ValidatorNotFound")
    ELSE Ok([l EXCEPT ![validator_id] =
                 SlashedValidator(@, determine_severity(offense))])

lock_stake(l, validator_id, amount) ==
    IF validator_id \notin DOMAIN l THEN Err(l, "ValidatorNotFound")
    ELSE IF l[validator_id].available_stake < amount THEN Err(l, "InsufficientStake")
    ELSE Ok([l EXCEPT ![validator_id].available_stake = SaturatingSub(@, amount),
                      ![validator_id].locked_stake = @ + amount])

unlock_stake(l, validator_id) ==
    IF validator_id \notin DOMAIN l THEN Err(l, "ValidatorNotFound")
    ELSE Ok([l EXCEPT ![validator_id].available_stake =
                          @ + l[validator_id].locked_stake,
                      ![validator_id].locked_stake = 0])

\* Variant of begin_unbonding: the validator stays active while unbonding.
begin_unbonding_stays_active(l, current_epoch, validator_id, amount) ==
    IF validator_id \notin DOMAIN l THEN Err(l, "ValidatorNotFound")
    ELSE IF l[validator_id].unlock_epoch # None THEN Err(l, "ConfigError")
    ELSE IF l[validator_id].available_stake < amount THEN Err(l, "InsufficientStake")
    ELSE Ok([l EXCEPT ![validator_id].available_stake = SaturatingSub(@, amount),
                      ![validator_id].locked_stake = @ + amount,
                      ![validator_id].unlock_epoch =
                          Some(current_epoch + UNBONDING_PERIOD_EPOCHS)])

begin_unbonding(l, current_epoch, validator_id, amount) ==
    IF validator_id \notin DOMAIN l THEN Err(l, "ValidatorNotFound")
    ELSE IF l[validator_id].unlock_epoch # None THEN Err(l, "ConfigError")
    ELSE IF l[validator_id].available_stake < amount THEN Err(l, "InsufficientStake")
    ELSE Ok([l EXCEPT ![validator_id].available_stake = SaturatingSub(@, amount),
                      ![validator_id].locked_stake = @ + amount,
                      ![validator_id].unlock_epoch =
                          Some(current_epoch + UNBONDING_PERIOD_EPOCHS),
                      ![validator_id].is_active = FALSE])

complete_unbonding(l, current_epoch, validator_id) ==
    IF validator_id \notin DOMAIN l THEN Err(l, "ValidatorNotFound")
    ELSE IF l[validator_id].unlock_epoch = None THEN Err(l, "ConfigError")
    ELSE IF current_epoch < l[validator_id].unlock_epoch[1] THEN Err(l, "ConfigError")
    ELSE [ledger |-> [l EXCEPT ![validator_id].stake =
                                   SaturatingSub(@, l[validator_id].locked_stake),
                               ![validator_id].locked_stake = 0,
                               ![validator_id].unlock_epoch = None],
          ok |-> TRUE, err |-> "", amount |-> l[validator_id].locked_stake]


(***************************************************************************)
(* Engine (src/src/consensus.rs): validators, blocks, the phases of an     *)
(* epoch.                                                                  *)
(***************************************************************************)
\* "0".repeat(64)
GenesisPreviousHash ==
    <<"0000000000000000000000000000000000000000000000000000000000000000">>

\* EmotionalValidator::new: the fields the engine reads.
NewValidator(id, stake) ==
    [id |-> id, stake |-> stake, is_active |-> TRUE, emotional_score |-> 0,
     reputation |-> 100]

is_eligible(v, emotional_threshold, minimum_stake) ==
    /\ v.is_active
    /\ v.stake >= minimum_stake
    /\ v.emotional_score >= emotional_threshold

\* adjust_reputation: the reputation stays within 0..=100.
adjust_reputation(reputation, delta) == Max(0, Min(100, reputation + delta))

\* apply_slashing: the stake and the reputation it leaves.  The penalty is
\* ((amount as f64 / stake as f64) * 10.0).min(20.0) as u8 over the reduced
\* stake; a division by zero gives infinity or NaN, and 20 after min.
apply_slashing(v, amount) ==
    LET stake == SaturatingSub(v.stake, amount)
        penalty == IF stake = 0 THEN 20
                   ELSE IF amount = 0 THEN 0
                   ELSE Min(20, F64Floor(F64MulInt(10, F64Div(amount, stake))))
    IN  [v EXCEPT !.stake = stake, !.reputation = SaturatingSub(@, penalty)]

\* calculate_emotional_score: the score of one reading.  A reading is
\* [biometric_type, value, quality], the quality counted in quarters.
ReadingScore(reading) ==
    CASE reading.biometric_type = "HeartRate" ->
             IF 60 <= reading.value /\ reading.value <= 80 THEN 100
             ELSE IF 50 <= reading.value /\ reading.value <= 100 THEN 80
             ELSE 50
      [] reading.biometric_type = "StressLevel" ->
             100 - Max(0, Min(100, reading.value))
      [] reading.biometric_type = "FocusLevel" -> Max(0, Min(100, reading.value))
      [] OTHER -> 75

\* calculate_emotional_score: total_score and total_weight after the loop
\* (sums of multiples of a quarter are exact in f64).
RECURSIVE WeightedTotals(_, _, _)
WeightedTotals(readings, i, acc) ==
    IF i > Len(readings) THEN acc
    ELSE WeightedTotals(readings, i + 1,
             [total_score |-> acc.total_score
                                  + ReadingScore(readings[i]) * readings[i].quality,
              total_weight |-> acc.total_weight + readings[i].quality])

\* Variant of FinalScore without the clamp: the quotient as u8.
FinalScore_unclamped(total_score, total_weight) ==
    IF total_score = 0 \/ (total_score < 0) # (total_weight < 0) THEN 0
    ELSE Min(255, F64Floor(F64Div(IF total_score < 0 THEN 0 - total_score
                                  ELSE total_score,
                                  IF total_weight < 0 THEN 0 - total_weight
                                  ELSE total_weight)))

\* (total_score / total_weight).clamp(0.0, 100.0) as u8, total_weight # 0
FinalScore(total_score, total_weight) ==
    IF total_score = 0 \/ (total_score < 0) # (total_weight < 0) THEN 0
    ELSE Min(100, F64Floor(F64Div(IF total_score < 0 THEN 0 - total_score
                                  ELSE total_score,
                                  IF total_weight < 0 THEN 0 - total_weight
                                  ELSE total_weight)))

\* calculate_emotional_score: Some(score), or None for the error.
calculate_emotional_score(readings) ==
    LET totals == WeightedTotals(readings, 1, [total_score |-> 0, total_weight |-> 0])
    IN  IF totals.total_weight = 0 THEN None
        ELSE Some(FinalScore(totals.total_score, totals.total_weight))

\* update_emotional_state: the validator with the profile the readings give;
\* unchanged when there are no readings or no score.
update_emotional_state(v, readings) ==
    IF readings = <<>> \/ calculate_emotional_score(readings) = None THEN v
    ELSE [v EXCEPT !.emotional_score = calculate_emotional_score(readings)[1]]

\* Position of the validator id in the registry, 0 if absent.
IndexOf(vs, id) ==
    IF \E i \in 1..Len(vs) : vs[i].id = id
    THEN CHOOSE i \in 1..Len(vs) : vs[i].id = id
    ELSE 0

InsertAt(seq, pos, x) == SubSeq(seq, 1, pos - 1) \o <<x>> \o SubSeq(seq, pos, Len(seq))

\* Variant of register_validator: the stake is checked after the insert.
register_validator_checks_late(vs, cfg, v, pos) ==
    [validators |-> IF IndexOf(vs, v.id) # 0 THEN [vs EXCEPT ![IndexOf(vs, v.id)] = v]
                    ELSE InsertAt(vs, pos, v),
     ok |-> v.stake >= cfg.minimum_stake,
     err |-> IF v.stake < cfg.minimum_stake THEN "InsufficientStake" ELSE ""]

\* register_validator: insert replaces the value of a key the map holds; a
\* new key lands anywhere in the map's iteration order (pos).
register_validator(vs, cfg, v, pos) ==
    IF v.stake < cfg.minimum_stake
    THEN [validators |-> vs, ok |-> FALSE, err |-> "InsufficientStake"]
    ELSE IF IndexOf(vs, v.id) # 0
         THEN [validators |-> [vs EXCEPT ![IndexOf(vs, v.id)] = v], ok |-> TRUE, err |-> ""]
         ELSE [validators |-> InsertAt(vs, pos, v), ok |-> TRUE, err |-> ""]

\* Variant of slash_validator: the reputation stays as it is.
slash_validator_spares(vs, id) == vs

\* The engine's slash_validator: adjust_reputation(-20) on a registered id.
slash_validator(vs, id) ==
    IF IndexOf(vs, id) # 0
    THEN [vs EXCEPT ![IndexOf(vs, id)].reputation =
              adjust_reputation(@, 0 - ENGINE_SLASH_REPUTATION)]
    ELSE vs

\* Transaction::is_expired
is_expired(tx, time, max_age) == time - tx.timestamp > max_age

\* Block::calculate_block_hash: a digest of the hashed fields, one to one.
calculate_block_hash(height, previous_hash, merkle_root, timestamp, validator_id, emotional_score) ==
    <<height, previous_hash, merkle_root, timestamp, validator_id, emotional_score>>

\* Block::calculate_merkle_root: a digest of the ordered transaction hashes.
calculate_merkle_root(transactions) ==
    [i \in 1..Len(transactions) |-> transactions[i].hash]

\* Block::new at wall-clock time `timestamp`.
Block_new(height, epoch, previous_hash, validator_id, emotional_score, transactions, timestamp) ==
    LET merkle_root == calculate_merkle_root(transactions)
    IN  [header |-> [height |-> height, epoch |-> epoch,
                     previous_hash |-> previous_hash, merkle_root |-> merkle_root,
                     timestamp |-> timestamp, validator_id |-> validator_id,
                     emotional_score |-> emotional_score],
         hash |-> calculate_block_hash(height, previous_hash, merkle_root, timestamp,
                                       validator_id, emotional_score),
         transactions |-> transactions,
         consensus_metadata |-> None]

verify_hash(block) ==
    block.hash = calculate_block_hash(block.header.height, block.header.previous_hash,
                                      block.header.merkle_root, block.header.timestamp,
                                      block.header.validator_id,
                                      block.header.emotional_score)

\* Variant of validate_block: every block is accepted.
validate_block_approves(block, expected_previous_hash, expected_height, expected_epoch, time) ==
    None

\* The epoch check of validate_block, which execute_voting calls with the
\* expected epoch as fourth argument.
EpochMismatch(block, expected_epoch) == block.header.epoch # expected_epoch

\* validate_block at wall-clock time `time`: None for Ok(()), Some(reason) for
\* Err(reason), the reasons without the values they are formatted with.  The
\* model's blocks are signed by their proposer; a transaction's `valid` field
\* is the outcome of its signature check.
validate_block(block, expected_previous_hash, expected_height, expected_epoch, time) ==
    IF ~verify_hash(block)
    THEN Some("Block hash does not match content")
    ELSE IF block.header.previous_hash # expected_previous_hash
    THEN Some("Previous hash mismatch")
    ELSE IF block.header.height # expected_height
    THEN Some("Block height mismatch")
    ELSE IF EpochMismatch(block, expected_epoch)
    THEN Some("Epoch mismatch")
    ELSE IF calculate_merkle_root(block.transactions) # block.header.merkle_root
    THEN Some("Merkle root mismatch")
    ELSE IF block.header.timestamp > time + 5000
    THEN Some("Block timestamp is too far in the future")
    ELSE IF block.header.timestamp < SaturatingSub(time, 3600000)
    THEN Some("Block timestamp is too old (>1 hour)")
    ELSE IF block.header.validator_id = ""
    THEN Some("Block has no validator ID")
    ELSE IF \E i \in 1..Len(block.transactions) : ~block.transactions[i].valid
    THEN Some("Transaction signature verification failed")
    ELSE None

\* sqrt of a stake that is a perfect square.
StakeWeight(stake) == CHOOSE r \in 0..stake : r * r = stake

\* select_committee: (score * sqrt(stake) * (reputation / 100.0) * 1000.0) as u64
IntegerScore(v) ==
    IF v.emotional_score = 0 \/ v.reputation = 0 \/ v.stake = 0 THEN 0
    ELSE F64Floor(F64MulInt(1000,
             F64MulInt(v.emotional_score * StakeWeight(v.stake),
                       F64Div(v.reputation, 100))))

\* Ord of OrderedValidator: reversed, so the heap's greatest is the lowest score.
HeapLe(a, b) == b.score <= a.score

\* BinaryHeap::sift_up(start, pos) with the hole's element x.
RECURSIVE SiftUp(_, _, _, _)
SiftUp(data, start, pos, x) ==
    IF pos > start /\ ~HeapLe(x, data[((pos - 1) \div 2) + 1])
    THEN SiftUp([data EXCEPT ![pos + 1] = data[((pos - 1) \div 2) + 1]],
                start, (pos - 1) \div 2, x)
    ELSE [data EXCEPT ![pos + 1] = x]

\* BinaryHeap::push
HeapPush(data, x) == SiftUp(Append(data, x), 0, Len(data), x)

\* BinaryHeap::sift_down_to_bottom(0): the hole goes down along the greater
\* children, then the element sifts up from there.
RECURSIVE SiftDownToBottom(_, _, _)
SiftDownToBottom(data, pos, x) ==
    LET end == Len(data)
        child == 2 * pos + 1
    IN  IF child <= SaturatingSub(end, 2)
        THEN LET c == IF HeapLe(data[child + 1], data[child + 2]) THEN child + 1
                      ELSE child
             IN  SiftDownToBottom([data EXCEPT ![pos + 1] = data[c + 1]], c, x)
        ELSE IF child = end - 1
             THEN SiftUp([data EXCEPT ![pos + 1] = data[child + 1]], 0, child, x)
             ELSE SiftUp(data, 0, pos, x)

\* BinaryHeap::pop: the heap without its greatest element.
HeapPop(data) ==
    LET last == data[Len(data)]
        rest == SubSeq(data, 1, Len(data) - 1)
    IN  IF rest = <<>> THEN rest ELSE SiftDownToBottom(rest, 0, last)

RECURSIVE HeapSelect(_, _, _, _)
HeapSelect(eligible, i, heap, committee_size) ==
    IF i > Len(eligible) THEN heap
    ELSE LET pushed == HeapPush(heap, [score |-> IntegerScore(eligible[i]),
                                       id |-> eligible[i].id])
         IN  HeapSelect(eligible, i + 1,
                        IF Len(pushed) > committee_size THEN HeapPop(pushed) ELSE pushed,
                        committee_size)

\* select_committee: the ids of the committee, in the order of the result.
select_committee(eligible, committee_size) ==
    IF Len(eligible) <= committee_size
    THEN [i \in 1..Len(eligible) |-> eligible[i].id]
    ELSE LET heap == HeapSelect(eligible, 1, <<>>, committee_size)
         IN  [i \in 1..Len(heap) |-> heap[i].id]

\* perform_emotional_assessment: every validator's profile takes the score
\* its readings give; the eligible ones, in the map's iteration order.
AssessedValidators(vs, scores) ==
    [i \in 1..Len(vs) |-> [vs[i] EXCEPT !.emotional_score = scores[vs[i].id]]]

EligibleOf(vs, cfg) ==
    SelectSeq(vs, LAMBDA v : is_eligible(v, cfg.emotional_threshold, cfg.minimum_stake))

\* propose_block: the block the primary builds at wall-clock time `time`.
ProposedBlock(vs, committee, blocks, pending, current_epoch, time) ==
    LET primary == vs[IndexOf(vs, committee[1])]
        transactions == SubSeq(pending, 1, Min(Len(pending), TAKE_LIMIT))
        previous_hash == IF blocks = <<>> THEN GenesisPreviousHash
                         ELSE blocks[Len(blocks)].hash
    IN  Block_new(Len(blocks) + 1, current_epoch, previous_hash, primary.id,
                  primary.emotional_score, transactions, time)

\* execute_voting, the loop over the committee from member i on.  acc carries
\* the detector's votes and events, the registry, and the loop's counters.
RECURSIVE CastVotes(_, _, _, _, _, _)
CastVotes(committee, i, block, blocks, current_epoch, acc) ==
    IF i > Len(committee) THEN acc
    ELSE LET id == committee[i]
             expected_previous_hash == IF blocks = <<>> THEN GenesisPreviousHash
                                       ELSE blocks[Len(blocks)].hash
             validation_result == validate_block(block, expected_previous_hash,
                                                 Len(blocks) + 1, current_epoch, acc.time)
             approved == validation_result = None
             score == acc.validators[IndexOf(acc.validators, id)].emotional_score
             vote == [NewVote(id, block.hash, block.header.epoch, score, approved)
                          EXCEPT !.reason = validation_result]
             r == record_vote(acc.votes, acc.slashing_events, vote)
         IN  CastVotes(committee, i + 1, block, blocks, current_epoch,
                 IF ~r.ok
                 THEN [acc EXCEPT !.votes = r.votes,
                                  !.slashing_events = r.slashing_events,
                                  !.byzantine_count = @ + 1,
                                  !.validators = slash_validator(@, id)]
                 ELSE [acc EXCEPT !.votes = r.votes,
                                  !.slashing_events = r.slashing_events,
                                  !.approved_count = IF approved THEN @ + 1 ELSE @,
                                  !.total_emotional_score = @ + score,
                                  !.participant_count = @ + 1])

\* ((a as f64 / b as f64) * 100.0) as u8, for a <= b
Percentage(a, b) == IF a = 0 THEN 0 ELSE F64Floor(F64MulInt(100, F64Div(a, b)))

\* execute_voting after the loop: the VotingResult of the tally `voted`.
VotingResult(voted, committee, cfg) ==
    LET required_votes == RequiredVotes(cfg.committee_size, cfg.byzantine_threshold)
    IN  [success |-> voted.approved_count >= required_votes,
         approved_count |-> voted.approved_count,
         required_votes |-> required_votes,
         consensus_strength |-> Percentage(voted.approved_count, Len(committee)),
         participant_count |-> voted.participant_count,
         byzantine_count |-> voted.byzantine_count,
         average_emotional_score |->
             voted.total_emotional_score \div voted.participant_count,
         participants |-> committee]

\* finalize_block: the block with its consensus metadata.
FinalizedBlock(block, voting, time) ==
    [block EXCEPT !.consensus_metadata =
        Some([participant_count |-> voting.participant_count,
              consensus_strength |-> voting.consensus_strength,
              emotional_fitness |-> voting.average_emotional_score,
              byzantine_failures |-> voting.byzantine_count,
              finalized_at |-> time,
              participants |-> voting.participants])]

\* Variant of FinalizedLog: the new block goes to the front of the log.
FinalizedLog_prepends(blocks, result, finalized) ==
    IF result = "ok" THEN <<finalized[1]>> \o blocks ELSE blocks

\* execute_epoch: the log after an epoch that ended with `result`.
FinalizedLog(blocks, result, finalized) ==
    IF result = "ok" THEN Append(blocks, finalized[1]) ELSE blocks

\* Variant of StateAfterEpoch: an aborted epoch counts the proposed height as
\* finalized.
StateAfterEpoch_height_on_abort(st, result, epoch, voting, finalized, pool, registered) ==
    IF result = "ok"
    THEN [st EXCEPT !.current_epoch = epoch,
                    !.last_finalized_height = finalized[1].header.height,
                    !.consensus_strength = voting[1].consensus_strength,
                    !.emotional_fitness = voting[1].average_emotional_score,
                    !.participation_rate =
                        Percentage(voting[1].participant_count, registered),
                    !.pending_transactions = Len(pool)]
    ELSE [st EXCEPT !.current_epoch = epoch, !.last_finalized_height = @ + 1]

\* execute_epoch and finalize_block: the ConsensusState after an epoch that
\* ended with `result`; pool is the pending pool it leaves.
StateAfterEpoch(st, result, epoch, voting, finalized, pool, registered) ==
    IF result = "ok"
    THEN [st EXCEPT !.current_epoch = epoch,
                    !.last_finalized_height = finalized[1].header.height,
                    !.consensus_strength = voting[1].consensus_strength,
                    !.emotional_fitness = voting[1].average_emotional_score,
                    !.participation_rate =
                        Percentage(voting[1].participant_count, registered),
                    !.pending_transactions = Len(pool)]
    ELSE [st EXCEPT !.current_epoch = epoch]

\* finalize_block: what stays in the pending pool.
ReapedPool(pending, block, time) ==
    SelectSeq(pending,
              LAMBDA tx : /\ \A i \in 1..Len(block.transactions) :
                                 block.transactions[i].hash # tx.hash
                          /\ ~is_expired(tx, time, MAX_TX_AGE))

(***************************************************************************)
(* State after construction of each component.                             *)
(***************************************************************************)
\* ConsensusConfig: the fields the epoch reads.
NewConfig(committee_size, byzantine_threshold) ==
    [committee_size |-> committee_size, byzantine_threshold |-> byzantine_threshold,
     emotional_threshold |-> DEFAULT_EMOTIONAL_THRESHOLD,
     minimum_stake |-> MIN_VALIDATOR_STAKE]

\* ProofOfEmotionEngine::new accepts the configuration.
ValidConfig(c) ==
    /\ c.emotional_threshold <= 100
    /\ c.byzantine_threshold >= MIN_BYZANTINE_THRESHOLD
    /\ c.byzantine_threshold <= MAX_BYZANTINE_THRESHOLD
    /\ c.committee_size > 0

\* ProofOfEmotionEngine::new, apart from the configuration.
EngineNew ==
    /\ validators = <<>>
    /\ state = [current_epoch |-> 0, consensus_strength |-> 0, emotional_fitness |-> 0,
                participation_rate |-> 0, last_finalized_height |-> 0,
                pending_transactions |-> 0]
    /\ finalized_blocks = <<>>
    /\ pending_transactions = <<>>
    /\ metrics = [total_epochs |-> 0, successful_epochs |-> 0, failed_epochs |-> 0,
                  byzantine_failures |-> 0, blocks_finalized |-> 0,
                  transactions_processed |-> 0]
    /\ now = 0
    /\ is_running = FALSE
    /\ epoch_loop = "none"
    /\ ticks = 0
    /\ tasks = [epoch_loops |-> <<>>, cleaners |-> <<>>]

\* ByzantineDetector::new
DetectorNew ==
    /\ votes = EmptyMap
    /\ proposals = EmptyMap
    /\ slashing_events = <<>>

\* CheckpointManager::new
CheckpointNew ==
    /\ checkpoints = <<>>
    /\ total_network_stake = 0

\* EmotionalStaking::new.  reward_history is the Vec's length and last entry.
LedgerNew ==
    /\ ledger = EmptyMap
    /\ ledger_initial = EmptyMap
    /\ ledger_unbonding = EmptyMap
    /\ ledger_epoch = 0
    /\ ledger_events = <<>>
    /\ reward_history = [len |-> 0, last |-> None]

(***************************************************************************)
(* Checkpoint manager (src/src/checkpoint.rs) and crash recovery.          *)
(***************************************************************************)
MINIMUM_STAKE_PERCENTAGE == 67

\* Variant of the stake gate: the percentage is rounded up.
StakeGate_rounds_up(total_stake_signed, total_stake) ==
    total_stake > 0 =>
        (total_stake_signed * 100 + total_stake - 1) \div total_stake
            >= MINIMUM_STAKE_PERCENTAGE

\* The stake gate of create_checkpoint and verify_checkpoint.
StakeGate(total_stake_signed, total_stake) ==
    total_stake > 0 =>
        (total_stake_signed * 100) \div total_stake >= MINIMUM_STAKE_PERCENTAGE

\* create_checkpoint_data: the payload checkpoint:height:block_hash:epoch:state_root.
create_checkpoint_data(height, block_hash, epoch, state_root) ==
    <<"checkpoint", height, block_hash, epoch, state_root>>

\* KeyPair::sign: a signature names the key that made it and the data signed;
\* one that does not decode is not well formed.
KeyPair_sign(key, data) == [well_formed |-> TRUE, signer |-> key, data |-> data]

\* sign_checkpoint
sign_checkpoint(height, block_hash, epoch, state_root, key_pair) ==
    KeyPair_sign(key_pair, create_checkpoint_data(height, block_hash, epoch, state_root))

\* KeyPair::verify: "error" (Err), "invalid" (Ok(false)) or "valid" (Ok(true)).
KeyPair_verify(data, signature, public_key) ==
    IF ~signature.well_formed THEN "error"
    ELSE IF signature.signer = public_key /\ signature.data = data THEN "valid"
    ELSE "invalid"

\* ValidatorSignature
NewValidatorSignature(validator_id, stake, signature, public_key) ==
    [validator_id |-> validator_id, stake |-> stake, signature |-> signature,
     public_key |-> public_key]

\* validator_signatures.iter().map(|vs| vs.stake).sum()
RECURSIVE SumStake(_)
SumStake(validator_signatures) ==
    IF validator_signatures = <<>> THEN 0
    ELSE Head(validator_signatures).stake + SumStake(Tail(validator_signatures))

\* verify_checkpoint, the loop over the signatures from the i-th on: the
\* first signature that does not verify ends it.
RECURSIVE VerifySignatures(_, _, _)
VerifySignatures(validator_signatures, i, data) ==
    IF i > Len(validator_signatures) THEN "valid"
    ELSE LET r == KeyPair_verify(data, validator_signatures[i].signature,
                                 validator_signatures[i].public_key)
         IN  IF r # "valid" THEN r
             ELSE VerifySignatures(validator_signatures, i + 1, data)

\* verify_checkpoint: "error", "invalid" (Ok(false)) or "valid" (Ok(true)).
verify_checkpoint(checkpoint, total_stake) ==
    LET signatures == VerifySignatures(checkpoint.validator_signatures, 1,
                          create_checkpoint_data(checkpoint.height, checkpoint.block_hash,
                                                 checkpoint.epoch, checkpoint.state_root))
    IN  IF checkpoint.validator_signatures = <<>> THEN "error"
        ELSE IF signatures # "valid" THEN signatures
        ELSE IF ~StakeGate(checkpoint.total_stake_signed, total_stake) THEN "invalid"
        ELSE "valid"

\* create_checkpoint: only an error of verify_checkpoint keeps it from storing.
create_checkpoint(cps, total_stake, block, validator_signatures) ==
    LET total_stake_signed == SumStake(validator_signatures)
        checkpoint == [height |-> block.header.height, block_hash |-> block.hash,
                       epoch |-> block.header.epoch,
                       validator_signatures |-> validator_signatures,
                       total_stake_signed |-> total_stake_signed,
                       state_root |-> block.header.merkle_root]
    IN  IF ~StakeGate(total_stake_signed, total_stake)
        THEN [checkpoints |-> cps, ok |-> FALSE]
        ELSE IF verify_checkpoint(checkpoint, total_stake) = "error"
        THEN [checkpoints |-> cps, ok |-> FALSE]
        ELSE [checkpoints |-> Append(cps, checkpoint), ok |-> TRUE]

\* get_latest_checkpoint
get_latest_checkpoint(cps) == IF cps = <<>> THEN None ELSE Some(cps[Len(cps)])

(***************************************************************************)
(* The fork detector.  blocks_at_height maps a height to its set of hashes, *)
(* held as a sequence in the set's iteration order.                        *)
(***************************************************************************)
\* ForkDetector::new
NewForkDetector ==
    [blocks_at_height |-> EmptyMap, canonical_chain |-> <<>>, forks |-> <<>>,
     block_metadata |-> EmptyMap]

ForkDetectorNew == fork_detector = NewForkDetector

\* BlockMetadata of a block
NewBlockMetadata(block) ==
    [height |-> block.header.height, emotional_score |-> block.header.emotional_score,
     consensus_strength |-> block.header.consensus_strength,
     timestamp |-> block.header.timestamp]

\* HashSet::contains
Contains(hashes, hash) == \E i \in 1..Len(hashes) : hashes[i] = hash

\* ForkInfo of a fork just detected
NewForkInfo(height, competing_hashes, time) ==
    [height |-> height, competing_hashes |-> competing_hashes, detected_at |-> time,
     resolution_method |-> None, winning_hash |-> None]

\* Variant of record_block: a competing hash is reported and not added to
\* the set of its height.
record_block_keeps_set(fd, block, pos, time) ==
    LET height == block.header.height
        hash == block.hash
        blocks == Lookup(fd.blocks_at_height, height)
        metadata == Store(fd.block_metadata, hash, NewBlockMetadata(block))
    IN  IF blocks # <<>> /\ ~Contains(blocks, hash)
        THEN [fork_detector |->
                  [fd EXCEPT !.block_metadata = metadata,
                             !.forks = Append(@, NewForkInfo(height, Append(blocks, hash),
                                                             time))],
              ok |-> FALSE, err |-> <<"ForkDetected", height>>]
        ELSE [fork_detector |->
                  [fd EXCEPT !.block_metadata = metadata,
                             !.blocks_at_height =
                                 Store(@, height, IF Contains(blocks, hash) THEN blocks
                                                  ELSE InsertAt(blocks, pos, hash)),
                             !.canonical_chain =
                                 IF @ = <<>> \/ height = Len(@) THEN Append(@, hash)
                                 ELSE @],
              ok |-> TRUE, err |-> None]

\* record_block: the detector it leaves and its result.  A hash new to the
\* set lands at pos in the set's iteration order.
record_block(fd, block, pos, time) ==
    LET height == block.header.height
        hash == block.hash
        blocks == Lookup(fd.blocks_at_height, height)
        metadata == Store(fd.block_metadata, hash, NewBlockMetadata(block))
    IN  IF blocks # <<>> /\ ~Contains(blocks, hash)
        THEN [fork_detector |->
                  [fd EXCEPT !.block_metadata = metadata,
                             !.blocks_at_height =
                                 Store(@, height, InsertAt(blocks, pos, hash)),
                             !.forks = Append(@, NewForkInfo(height, Append(blocks, hash),
                                                             time))],
              ok |-> FALSE, err |-> <<"ForkDetected", height>>]
        ELSE [fork_detector |->
                  [fd EXCEPT !.block_metadata = metadata,
                             !.blocks_at_height =
                                 Store(@, height, IF Contains(blocks, hash) THEN blocks
                                                  ELSE InsertAt(blocks, pos, hash)),
                             !.canonical_chain =
                                 IF @ = <<>> \/ height = Len(@) THEN Append(@, hash)
                                 ELSE @],
              ok |-> TRUE, err |-> None]

\* Variant of the fork choice order: among equal scores and strengths the
\* latest timestamp comes first.
ForkChoiceBefore_latest(a, b) ==
    \/ a.emotional_score > b.emotional_score
    \/ /\ a.emotional_score = b.emotional_score
       /\ \/ a.consensus_strength > b.consensus_strength
          \/ /\ a.consensus_strength = b.consensus_strength
             /\ a.timestamp > b.timestamp

\* The comparator of resolve_fork's sort: a comes before b (Ordering::Less).
ForkChoiceBefore(a, b) ==
    \/ a.emotional_score > b.emotional_score
    \/ /\ a.emotional_score = b.emotional_score
       /\ \/ a.consensus_strength > b.consensus_strength
          \/ /\ a.consensus_strength = b.consensus_strength
             /\ a.timestamp < b.timestamp

\* sort_by is stable: a candidate goes behind the sorted ones it does not
\* come before.
RECURSIVE SortCandidates(_, _, _)
SortCandidates(candidates, i, sorted) ==
    IF i > Len(candidates) THEN sorted
    ELSE LET c == candidates[i]
             behind == {j \in 1..Len(sorted) : ~ForkChoiceBefore(c[2], sorted[j][2])}
             k == IF behind = {} THEN 0 ELSE CHOOSE j \in behind : \A l \in behind : l <= j
         IN  SortCandidates(candidates, i + 1, InsertAt(sorted, k + 1, c))

\* The candidates of resolve_fork: the hashes of the set that have metadata,
\* in iteration order.
RECURSIVE Candidates(_, _, _)
Candidates(blocks, i, metadata) ==
    IF i > Len(blocks) THEN <<>>
    ELSE (IF blocks[i] \in DOMAIN metadata THEN <<<<blocks[i], metadata[blocks[i]]>>>>
          ELSE <<>>) \o Candidates(blocks, i + 1, metadata)

\* forks.iter_mut().find(..): the first unresolved fork at the height, 0 if none.
FirstUnresolved(forks, height) ==
    LET unresolved == {i \in 1..Len(forks) :
                           forks[i].height = height /\ forks[i].winning_hash = None}
    IN  IF unresolved = {} THEN 0
        ELSE CHOOSE i \in unresolved : \A j \in unresolved : i <= j

\* resolve_fork: the detector it leaves and its result; result "panic" is
\* the index out of bounds on an empty candidate list.
resolve_fork(fd, height) ==
    LET blocks == Lookup(fd.blocks_at_height, height)
        sorted == SortCandidates(Candidates(blocks, 1, fd.block_metadata), 1, <<>>)
        first == FirstUnresolved(fd.forks, height)
    IN  IF blocks = <<>>
        THEN [fork_detector |-> fd, result |-> "err", hash |-> None]
        ELSE IF Len(blocks) = 1
        THEN [fork_detector |-> fd, result |-> "ok", hash |-> Some(blocks[1])]
        ELSE IF sorted = <<>>
        THEN [fork_detector |-> fd, result |-> "panic", hash |-> None]
        ELSE [fork_detector |->
                  IF first = 0 THEN fd
                  ELSE [fd EXCEPT !.forks[first].resolution_method =
                                      Some("Emotional Score Rule"),
                                  !.forks[first].winning_hash = Some(sorted[1][1])],
              result |-> "ok", hash |-> Some(sorted[1][1])]

\* has_fork
has_fork(fd, height) == Len(Lookup(fd.blocks_at_height, height)) > 1

\* validate_state
validate_state(st, blocks) ==
    /\ blocks # <<>> => blocks[Len(blocks)].header.height = st.last_finalized_height
    /\ \A i \in 2..Len(blocks) :
           /\ blocks[i].header.height = blocks[i - 1].header.height + 1
           /\ blocks[i].header.previous_hash = blocks[i - 1].hash

\* restore_from_checkpoint: the state it leaves, and whether it returned Ok.
restore_from_checkpoint(st, checkpoint, total_stake) ==
    IF verify_checkpoint(checkpoint, total_stake) # "valid"
    THEN [state |-> st, ok |-> FALSE]
    ELSE [state |-> [st EXCEPT !.current_epoch = checkpoint.epoch,
                               !.last_finalized_height = checkpoint.height],
          ok |-> TRUE]

\* replay_blocks_since_checkpoint: the blocks above the checkpoint whose
\* hash verifies set the height, strength and fitness of the state and are
\* recorded in the fork detector, in log order; a fork is resolved at once.
RECURSIVE replay_blocks_since_checkpoint(_, _, _, _, _, _, _)
replay_blocks_since_checkpoint(st, fd, blocks, i, checkpoint, pos, time) ==
    IF i > Len(blocks) THEN [state |-> st, fork_detector |-> fd]
    ELSE IF \/ blocks[i].header.height <= checkpoint.height
            \/ ~verify_hash(blocks[i])
    THEN replay_blocks_since_checkpoint(st, fd, blocks, i + 1, checkpoint, pos, time)
    ELSE LET recorded ==
                 record_block(fd, blocks[i],
                              Min(pos, Len(Lookup(fd.blocks_at_height,
                                                  blocks[i].header.height)) + 1),
                              time)
         IN  replay_blocks_since_checkpoint(
                 IF blocks[i].consensus_metadata # None
                 THEN [st EXCEPT !.last_finalized_height = blocks[i].header.height,
                                 !.consensus_strength =
                                     blocks[i].consensus_metadata[1].consensus_strength,
                                 !.emotional_fitness =
                                     blocks[i].consensus_metadata[1].emotional_fitness]
                 ELSE st,
                 IF recorded.ok THEN recorded.fork_detector
                 ELSE resolve_fork(recorded.fork_detector,
                                   blocks[i].header.height).fork_detector,
                 blocks, i + 1, checkpoint, pos, time)

\* recover_from_crash: the state and the fork detector it leaves, and
\* whether it returned Ok.
recover_from_crash(st, fd, blocks, cps, total_stake, pos, time) ==
    IF cps = <<>>
    THEN [state |-> st, fork_detector |-> fd, ok |-> validate_state(st, blocks)]
    ELSE LET checkpoint == cps[Len(cps)]
             restored == restore_from_checkpoint(st, checkpoint, total_stake)
             replayed == IF restored.state.last_finalized_height > checkpoint.height
                         THEN replay_blocks_since_checkpoint(restored.state, fd, blocks, 1,
                                                             checkpoint, pos, time)
                         ELSE [state |-> restored.state, fork_detector |-> fd]
         IN  IF ~restored.ok THEN [state |-> st, fork_detector |-> fd, ok |-> FALSE]
             ELSE [state |-> replayed.state, fork_detector |-> replayed.fork_detector,
                   ok |-> validate_state(replayed.state, blocks)]

(***************************************************************************)
(* SpecQuorum: the quorum rule of execute_voting over every configuration  *)
(* the constructor accepts, up to MaxCommittee committee members.          *)
(***************************************************************************)
InitQuorum ==
    /\ \E cs \in 1..MaxCommittee :
       \E bt \in MIN_BYZANTINE_THRESHOLD..MAX_BYZANTINE_THRESHOLD :
           config = NewConfig(cs, bt)
    /\ ValidConfig(config)
    /\ EngineNew /\ DetectorNew /\ CheckpointNew /\ LedgerNew /\ ForkDetectorNew
    /\ last_op = [op |-> "new"]

\* The tally at the end of execute_voting, for approved_count approvals.
Tally(approved_count) ==
    /\ last_op' = [op |-> "execute_voting", approved_count |-> approved_count,
                   required_votes |-> RequiredVotes(config.committee_size,
                                                    config.byzantine_threshold),
                   success |-> VotingSuccess(approved_count, config.committee_size,
                                             config.byzantine_threshold)]
    /\ UNCHANGED <<engine_vars, detector_vars, checkpoint_vars, ledger_vars, fork_detector>>

NextQuorum == \E approved_count \in 0..config.committee_size : Tally(approved_count)

SpecQuorum == InitQuorum /\ [][NextQuorum]_vars

\* ceil(a / b) over the integers.
CeilDiv(a, b) == (a + b - 1) \div b

\* C2: voting succeeds exactly when the approvals are at least
\* ceil(committee_size * byzantine_threshold / 100) (and the epoch appends a
\* block exactly when voting succeeds).
C2_QuorumRule ==
    last_op.op = "execute_voting" =>
        (last_op.success <=>
            last_op.approved_count >=
                CeilDiv(config.committee_size * config.byzantine_threshold, 100))


(***************************************************************************)
(* SpecDetector: the Byzantine detector driven through its public API.     *)
(***************************************************************************)
BlockHashes == {"A", "B"}
DetectorEpochs == 1..MaxDetectorEpoch
DetectorHeights == 1..MaxDetectorEpoch
RetentionEpochs == {0, 1}

RECURSIVE SumLen(_, _)
SumLen(map, keys) ==
    IF keys = {} THEN 0
    ELSE LET k == CHOOSE x \in keys : TRUE
         IN  Len(map[k]) + SumLen(map, keys \ {k})

\* Calls of record_vote and record_proposal so far that stored or reported.
DetectorRecords ==
    SumLen(votes, DOMAIN votes) + SumLen(proposals, DOMAIN proposals)
        + Len(slashing_events)

InitDetector ==
    /\ config = NewConfig(1, MIN_BYZANTINE_THRESHOLD)
    /\ EngineNew /\ DetectorNew /\ CheckpointNew /\ LedgerNew /\ ForkDetectorNew
    /\ last_op = [op |-> "new"]

DetRecordVote(validator_id, block_hash, epoch, approved) ==
    LET vote == NewVote(validator_id, block_hash, epoch, 80, approved)
        r == record_vote(votes, slashing_events, vote)
    IN  /\ DetectorRecords < MaxDetectorOps
        /\ votes' = r.votes
        /\ slashing_events' = r.slashing_events
        /\ last_op' = [op |-> "record_vote", vote |-> vote, ok |-> r.ok]
        /\ UNCHANGED <<proposals, engine_vars, checkpoint_vars, ledger_vars, fork_detector>>

DetRecordProposal(validator_id, height, block_hash) ==
    LET r == record_proposal(proposals, slashing_events, validator_id, height, block_hash)
    IN  /\ DetectorRecords < MaxDetectorOps
        /\ proposals' = r.proposals
        /\ slashing_events' = r.slashing_events
        /\ last_op' = [op |-> "record_proposal",
                       proposal |-> NewProposal(validator_id, height, block_hash),
                       ok |-> r.ok]
        /\ UNCHANGED <<votes, engine_vars, checkpoint_vars, ledger_vars, fork_detector>>

DetCleanup(current_epoch, retention_epochs) ==
    /\ votes' = cleanup_old_data(votes, current_epoch, retention_epochs)
    /\ last_op' = [op |-> "cleanup_old_data", current_epoch |-> current_epoch,
                   retention_epochs |-> retention_epochs]
    /\ UNCHANGED <<proposals, slashing_events, engine_vars, checkpoint_vars, ledger_vars, fork_detector>>

NextDetector ==
    \/ \E v \in ValidatorIds, h \in BlockHashes, e \in DetectorEpochs, a \in BOOLEAN :
           DetRecordVote(v, h, e, a)
    \/ \E v \in ValidatorIds, ht \in DetectorHeights, h \in BlockHashes :
           DetRecordProposal(v, ht, h)
    \/ \E e \in 1..(MaxDetectorEpoch + 1), r \in RetentionEpochs : DetCleanup(e, r)

SpecDetector == InitDetector /\ [][NextDetector]_vars

\* The events of evs2 are those of evs1 followed by exactly one event for
\* validator_id with the given severity and rate, offense DoubleSigning.
OneEventAppended(evs1, evs2, validator_id, severity, rate) ==
    /\ Len(evs2) = Len(evs1) + 1
    /\ SubSeq(evs2, 1, Len(evs1)) = evs1
    /\ evs2[Len(evs2)].validator_id = validator_id
    /\ evs2[Len(evs2)].offense = "DoubleSigning"
    /\ evs2[Len(evs2)].severity = severity
    /\ evs2[Len(evs2)].slashing_rate = rate

\* A vote (V, e, H, not a) is stored for the vote (V, e, H, a).
StoredDoubleVote(vs, vote) ==
    \E i \in 1..Len(Lookup(vs, <<vote.validator_id, vote.epoch>>)) :
        LET x == vs[<<vote.validator_id, vote.epoch>>][i]
        IN  x.block_hash = vote.block_hash /\ x.approved # vote.approved

\* A vote of the same validator and epoch on another block hash is stored.
StoredOtherHash(vs, vote) ==
    \E i \in 1..Len(Lookup(vs, <<vote.validator_id, vote.epoch>>)) :
        vs[<<vote.validator_id, vote.epoch>>][i].block_hash # vote.block_hash

\* A proposal of the same validator and height with another hash is stored.
StoredOtherProposal(ps, p) ==
    \E i \in 1..Len(Lookup(ps, <<p.validator_id, p.height>>)) :
        ps[<<p.validator_id, p.height>>][i].block_hash # p.block_hash

\* The votes stored for validator_id, over all epochs.
VotesOf(vs, validator_id) ==
    {k \in DOMAIN vs : k[1] = validator_id /\ vs[k] # <<>>}

\* C6: record_vote of (V, e, H, a) with (V, e, H, not a) stored returns an
\* error, appends exactly one DoubleSigning event of Critical severity (15%)
\* for V, and does not store the new vote.
C6_DoubleVote ==
    [][(last_op'.op = "record_vote" /\ StoredDoubleVote(votes, last_op'.vote)) =>
          /\ ~last_op'.ok
          /\ OneEventAppended(slashing_events, slashing_events',
                              last_op'.vote.validator_id, "Critical", 15)
          /\ votes' = votes]_vars

C6_Witness ==
    /\ last_op.op = "record_vote"
    /\ StoredDoubleVote(votes, last_op.vote)
    /\ ~last_op.ok
    /\ Len(slashing_events) >= 1

\* C7: record_proposal(V, h, B) with a proposal of V at h with another hash
\* stored returns an error, appends exactly one Critical event for V and does
\* not store B; otherwise (same hash again, another validator, another
\* height) it returns Ok and appends no event.
C7_DoubleSign ==
    [][last_op'.op = "record_proposal" =>
          IF StoredOtherProposal(proposals, last_op'.proposal)
          THEN /\ ~last_op'.ok
               /\ OneEventAppended(slashing_events, slashing_events',
                                   last_op'.proposal.validator_id, "Critical", 15)
               /\ proposals' = proposals
          ELSE /\ last_op'.ok
               /\ slashing_events' = slashing_events]_vars

\* A double-sign was reported while the same validator also holds a proposal
\* at another height and another validator one at the same height.
C7_Witness ==
    /\ last_op.op = "record_proposal"
    /\ StoredOtherProposal(proposals, last_op.proposal)
    /\ ~last_op.ok
    /\ Len(slashing_events) = 1
    /\ \E k \in DOMAIN proposals :
           k[1] = last_op.proposal.validator_id /\ k[2] # last_op.proposal.height

\* C8: record_vote with a vote of the same validator and epoch on another
\* block hash stored returns an error and appends one event of Major
\* severity (5%); a vote on a hash that differs only from the validator's
\* votes in other epochs is accepted without any event.
C8_Equivocation ==
    [][last_op'.op = "record_vote" =>
          /\ StoredOtherHash(votes, last_op'.vote) =>
                /\ ~last_op'.ok
                /\ OneEventAppended(slashing_events, slashing_events',
                                    last_op'.vote.validator_id, "Major", 5)
          /\ Lookup(votes, <<last_op'.vote.validator_id, last_op'.vote.epoch>>) = <<>> =>
                /\ last_op'.ok
                /\ slashing_events' = slashing_events]_vars

\* An equivocation was reported, and the validator holds a vote on the other
\* hash in another epoch that was accepted.
C8_Witness ==
    /\ last_op.op = "record_vote"
    /\ StoredOtherHash(votes, last_op.vote)
    /\ ~last_op.ok
    /\ \E k \in VotesOf(votes, last_op.vote.validator_id) :
           /\ k[2] # last_op.vote.epoch
           /\ votes[k][1].block_hash = last_op.vote.block_hash


(***************************************************************************)
(* SpecLedger: the stake ledger driven through its public API.  One        *)
(* validator id registers; operations also name an id that never does.     *)
(***************************************************************************)
LedgerIds == {"v1"}
LedgerStakes == {9999, 12000}
Commissions == {5, 21}
LockAmounts == {4000, 12000}
OffenseInputs == {"PoorEmotionalBehavior", "InvalidBiometric", "DoubleSigning"}

InitLedger ==
    /\ config = NewConfig(1, MIN_BYZANTINE_THRESHOLD)
    /\ EngineNew /\ DetectorNew /\ CheckpointNew /\ LedgerNew /\ ForkDetectorNew
    /\ last_op = [op |-> "new"]

LedgerOp(op, validator_id, arg, r) ==
    [op |-> op, validator_id |-> validator_id, arg |-> arg, ok |-> r.ok,
     err |-> r.err, amount |-> r.amount,
     before |-> IF validator_id \in DOMAIN ledger THEN Some(ledger[validator_id])
                ELSE None]

LedRegister(id, initial_stake, commission) ==
    LET r == ledger_register_validator(ledger, id, initial_stake, commission)
    IN  /\ ledger' = r.ledger
        /\ ledger_initial' = IF r.ok THEN Store(ledger_initial, id, initial_stake)
                             ELSE ledger_initial
        /\ ledger_unbonding' = IF r.ok THEN Store(ledger_unbonding, id, 0)
                               ELSE ledger_unbonding
        /\ last_op' = LedgerOp("register_validator", id, <<initial_stake, commission>>, r)
        /\ UNCHANGED <<ledger_epoch, ledger_events, reward_history>>
        /\ UNCHANGED <<engine_vars, detector_vars, checkpoint_vars, fork_detector>>

LedSlash(validator_id, offense) ==
    LET r == ledger_slash_validator(ledger, validator_id, offense)
    IN  /\ ledger' = r.ledger
        /\ ledger_events' =
               IF r.ok
               THEN Append(ledger_events,
                           ledger_slash_event(validator_id, offense,
                                              ledger[validator_id].stake))
               ELSE ledger_events
        /\ last_op' = LedgerOp("slash_validator", validator_id, offense, r)
        /\ UNCHANGED <<ledger_initial, ledger_unbonding, ledger_epoch, reward_history>>
        /\ UNCHANGED <<engine_vars, detector_vars, checkpoint_vars, fork_detector>>

LedLock(validator_id, amount) ==
    LET r == lock_stake(ledger, validator_id, amount)
    IN  /\ ledger' = r.ledger
        /\ last_op' = LedgerOp("lock_stake", validator_id, amount, r)
        /\ UNCHANGED <<ledger_initial, ledger_unbonding, ledger_epoch, ledger_events,
                       reward_history>>
        /\ UNCHANGED <<engine_vars, detector_vars, checkpoint_vars, fork_detector>>

LedUnlock(validator_id) ==
    LET r == unlock_stake(ledger, validator_id)
    IN  /\ ledger' = r.ledger
        /\ last_op' = LedgerOp("unlock_stake", validator_id, None, r)
        /\ UNCHANGED <<ledger_initial, ledger_unbonding, ledger_epoch, ledger_events,
                       reward_history>>
        /\ UNCHANGED <<engine_vars, detector_vars, checkpoint_vars, fork_detector>>

LedBeginUnbonding(validator_id, amount) ==
    LET r == begin_unbonding(ledger, ledger_epoch, validator_id, amount)
    IN  /\ ledger' = r.ledger
        /\ ledger_unbonding' = IF r.ok THEN Store(ledger_unbonding, validator_id, amount)
                               ELSE ledger_unbonding
        /\ last_op' = LedgerOp("begin_unbonding", validator_id, amount, r)
        /\ UNCHANGED <<ledger_initial, ledger_epoch, ledger_events, reward_history>>
        /\ UNCHANGED <<engine_vars, detector_vars, checkpoint_vars, fork_detector>>

LedCompleteUnbonding(validator_id) ==
    LET r == complete_unbonding(ledger, ledger_epoch, validator_id)
    IN  /\ ledger' = r.ledger
        /\ ledger_unbonding' = IF r.ok THEN Store(ledger_unbonding, validator_id, 0)
                               ELSE ledger_unbonding
        /\ last_op' = LedgerOp("complete_unbonding", validator_id, None, r)
        /\ UNCHANGED <<ledger_initial, ledger_epoch, ledger_events, reward_history>>
        /\ UNCHANGED <<engine_vars, detector_vars, checkpoint_vars, fork_detector>>

\* n consecutive calls of distribute_rewards with an empty score map: each
\* advances the epoch by one and pushes a distribution without rewards.
\* Calls come one at a time or UNBONDING_PERIOD_EPOCHS - 1 at a time, a
\* single call only where the long runs start and end.
LedDistributeRewards(n) ==
    /\ ledger_epoch + n <= UNBONDING_PERIOD_EPOCHS * MaxLedgerEpoch
    /\ n = 1 => ledger_epoch % (UNBONDING_PERIOD_EPOCHS - 1) = 0
    /\ ledger_epoch' = ledger_epoch + n
    /\ reward_history' =
           [len |-> reward_history.len + n,
            last |-> Some([epoch |-> ledger_epoch + n,
                           total_rewards |-> BASE_REWARD_POOL,
                           validator_rewards |-> EmptyMap,
                           delegator_rewards |-> EmptyMap])]
    /\ last_op' = [op |-> "distribute_rewards", calls |-> n, ok |-> TRUE]
    /\ UNCHANGED <<ledger, ledger_initial, ledger_unbonding, ledger_events>>
    /\ UNCHANGED <<engine_vars, detector_vars, checkpoint_vars, fork_detector>>

NextLedger ==
    \/ \E id \in LedgerIds, st \in LedgerStakes, c \in Commissions : LedRegister(id, st, c)
    \/ \E id \in ValidatorIds, o \in OffenseInputs :
           Len(ledger_events) < MaxLedgerEvents /\ LedSlash(id, o)
    \/ \E id \in ValidatorIds, a \in LockAmounts : LedLock(id, a)
    \/ \E id \in ValidatorIds : LedUnlock(id)
    \/ \E id \in ValidatorIds, a \in LockAmounts : LedBeginUnbonding(id, a)
    \/ \E id \in ValidatorIds : LedCompleteUnbonding(id)
    \/ \E n \in {1, UNBONDING_PERIOD_EPOCHS - 1} : LedDistributeRewards(n)

SpecLedger == InitLedger /\ [][NextLedger]_vars

(***************************************************************************)
(* SpecSlash: registration and slashing alone, to the depth at which the   *)
(* reputation runs out.                                                    *)
(***************************************************************************)
NextSlash ==
    \/ \E id \in LedgerIds, st \in LedgerStakes : LedRegister(id, st, MAX_COMMISSION)
    \/ \E id \in LedgerIds, o \in OffenseInputs :
           Len(ledger_events) < MaxSlashes /\ LedSlash(id, o)

SpecSlash == InitLedger /\ [][NextSlash]_vars

\* C9: after any sequence of ledger operations on a validator,
\* locked_stake + available_stake <= initial stake - total amount slashed.
C9_StakeConservation ==
    \A id \in DOMAIN ledger :
        ledger[id].locked_stake + ledger[id].available_stake
            <= ledger_initial[id] - ledger[id].total_penalties

\* The reputation penalty the specification gives a severity.
PenaltyOf(severity) ==
    CASE severity = "Minor" -> 5 [] severity = "Major" -> 10 [] severity = "Critical" -> 20

\* C10: slash_validator on a registered validator never increases its stake,
\* lowers reputation by 5, 10 or 20 for Minor, Major or Critical severity
\* without going below 0, leaves the validator inactive whenever
\* stake_after < minimum stake, and appends exactly one SlashingEvent; on an
\* unknown validator it returns ValidatorNotFound and changes nothing.
C10_Slash ==
    [][last_op'.op = "slash_validator" =>
          LET id == last_op'.validator_id
          IN  IF id \in DOMAIN ledger
              THEN /\ last_op'.ok
                   /\ ledger'[id].stake <= ledger[id].stake
                   /\ Len(ledger_events') = Len(ledger_events) + 1
                   /\ SubSeq(ledger_events', 1, Len(ledger_events)) = ledger_events
                   /\ ledger_events'[Len(ledger_events')].validator_id = id
                   /\ ledger'[id].reputation =
                          Max(0, ledger[id].reputation -
                                 PenaltyOf(ledger_events'[Len(ledger_events')].severity))
                   /\ ledger'[id].stake < MIN_VALIDATOR_STAKE => ~ledger'[id].is_active
              ELSE /\ ~last_op'.ok
                   /\ last_op'.err = "ValidatorNotFound"
                   /\ UNCHANGED ledger_vars]_vars

\* A slash that met a reputation smaller than its penalty, and left the
\* validator below the minimum stake.
C10_Witness ==
    /\ last_op.op = "slash_validator"
    /\ last_op.ok
    /\ last_op.before # None
    /\ last_op.before[1].reputation > 0
    /\ last_op.before[1].reputation
           < PenaltyOf(ledger_events[Len(ledger_events)].severity)
    /\ ledger[last_op.validator_id].reputation = 0
    /\ ledger[last_op.validator_id].stake < MIN_VALIDATOR_STAKE


\* C11: complete_unbonding fails with the ledger unchanged when the
\* validator is not unbonding or the ledger epoch is below unlock_epoch; when
\* it succeeds it returns exactly the amount begin_unbonding placed in
\* unbonding and clears locked_stake and unlock_epoch, whatever lock_stake,
\* unlock_stake and slash_validator calls came in between.
C11_CompleteUnbonding ==
    [][(last_op'.op = "complete_unbonding" /\ last_op'.before # None) =>
          LET id == last_op'.validator_id
          IN  IF \/ ledger[id].unlock_epoch = None
                 \/ ledger_epoch < ledger[id].unlock_epoch[1]
              THEN /\ ~last_op'.ok
                   /\ ledger' = ledger
              ELSE /\ last_op'.ok
                   /\ last_op'.amount = ledger_unbonding[id]
                   /\ ledger'[id].locked_stake = 0
                   /\ ledger'[id].unlock_epoch = None]_vars

\* C12: begin_unbonding fails with the ledger unchanged if the validator is
\* already unbonding or available_stake < amount; otherwise it moves amount
\* from available to locked, sets unlock_epoch = ledger epoch +
\* UNBONDING_PERIOD_EPOCHS, and deactivates the validator.
C12_BeginUnbonding ==
    [][(last_op'.op = "begin_unbonding" /\ last_op'.before # None) =>
          LET id == last_op'.validator_id
              amount == last_op'.arg
          IN  IF \/ ledger[id].unlock_epoch # None
                 \/ ledger[id].available_stake < amount
              THEN /\ ~last_op'.ok
                   /\ ledger' = ledger
              ELSE /\ last_op'.ok
                   /\ ledger'[id].available_stake = ledger[id].available_stake - amount
                   /\ ledger'[id].locked_stake = ledger[id].locked_stake + amount
                   /\ ledger'[id].unlock_epoch =
                          Some(ledger_epoch + UNBONDING_PERIOD_EPOCHS)
                   /\ ~ledger'[id].is_active
                   /\ ledger'[id].stake = ledger[id].stake]_vars

\* An active validator with stake locked for consensus began unbonding after
\* the ledger's first epoch.
C12_Witness ==
    /\ last_op.op = "begin_unbonding"
    /\ last_op.ok
    /\ ledger_epoch > 0
    /\ last_op.before[1].is_active
    /\ last_op.before[1].locked_stake > 0
    /\ ~ledger[last_op.validator_id].is_active
    /\ ledger[last_op.validator_id].unlock_epoch =
           Some(ledger_epoch + UNBONDING_PERIOD_EPOCHS)
    /\ ledger[last_op.validator_id].locked_stake =
           last_op.before[1].locked_stake + last_op.arg


(***************************************************************************)
(* SpecCheckpoint: the checkpoint manager alone, fed blocks and signature  *)
(* lists of every kind while the known total stake changes.                *)
(***************************************************************************)
\* The blocks of the checkpoint tests: create_test_block(height, hash).
create_test_block(height, hash) ==
    [header |-> [height |-> height, epoch |-> height \div 10,
                 merkle_root |-> "merkle_root"],
     hash |-> hash]

CheckpointBlocks == {create_test_block(100, "hash100"), create_test_block(200, "hash200")}
TotalStakes == {0, 10000, 10001}
SignerStakes == {<<"validator1", 5000>>, <<"validator1", 7000>>, <<"validator2", 1700>>}
SignatureForms == {"signed", "forged", "malformed"}

\* The key pair of a validator; its public key is the key pair's name.
KeyOf(validator_id) == <<"key", validator_id>>

\* One validator's signature for a block: made by its own key, made by
\* another key under its public key, or a string that does not decode.
SignatureFor(block, signer, form) ==
    LET signature == sign_checkpoint(block.header.height, block.hash, block.header.epoch,
                                     block.header.merkle_root,
                                     IF form = "forged" THEN KeyOf("intruder")
                                     ELSE KeyOf(signer[1]))
    IN  NewValidatorSignature(signer[1], signer[2],
                              [signature EXCEPT !.well_formed = form # "malformed"],
                              KeyOf(signer[1]))

SignatureChoices(block) ==
    {SignatureFor(block, signer, form) : signer \in SignerStakes, form \in SignatureForms}

SignatureLists(block) ==
    {<<>>} \cup {<<a>> : a \in SignatureChoices(block)}
           \cup {<<a, b>> : a, b \in SignatureChoices(block)}

InitCheckpoint ==
    /\ config = NewConfig(1, MIN_BYZANTINE_THRESHOLD)
    /\ EngineNew /\ DetectorNew /\ CheckpointNew /\ LedgerNew /\ ForkDetectorNew
    /\ last_op = [op |-> "new"]

CpUpdateTotalStake(total_stake) ==
    /\ total_network_stake' = total_stake
    /\ last_op' = [op |-> "update_total_stake", total_stake |-> total_stake]
    /\ UNCHANGED <<checkpoints, engine_vars, detector_vars, ledger_vars, fork_detector>>

CpCreateCheckpoint(block, validator_signatures) ==
    \E r \in {create_checkpoint(checkpoints, total_network_stake, block,
                                validator_signatures)} :
        /\ checkpoints' = r.checkpoints
        /\ last_op' = [op |-> "create_checkpoint", ok |-> r.ok, block |-> block,
                       validator_signatures |-> validator_signatures,
                       latest |-> get_latest_checkpoint(r.checkpoints)]
        /\ UNCHANGED <<total_network_stake, engine_vars, detector_vars, ledger_vars, fork_detector>>

NextCheckpoint ==
    \/ \E total_stake \in TotalStakes : CpUpdateTotalStake(total_stake)
    \/ \E block \in CheckpointBlocks :
           \E validator_signatures \in SignatureLists(block) :
               /\ Len(checkpoints) < MaxStoredCheckpoints
               /\ CpCreateCheckpoint(block, validator_signatures)

SpecCheckpoint == InitCheckpoint /\ [][NextCheckpoint]_vars

\* The payload a checkpoint's signatures are made over.
PayloadOf(height, block_hash, epoch, state_root) ==
    <<"checkpoint", height, block_hash, epoch, state_root>>

\* The signatures of a list that verify over a payload against the public
\* keys they state.
VerifyingSignatures(validator_signatures, payload) ==
    {j \in 1..Len(validator_signatures) :
         /\ validator_signatures[j].signature.well_formed
         /\ validator_signatures[j].signature.signer = validator_signatures[j].public_key
         /\ validator_signatures[j].signature.data = payload}

\* The stake of the first n signatures of a list.
RECURSIVE StakeOfFirst(_, _)
StakeOfFirst(validator_signatures, n) ==
    IF n = 0 THEN 0
    ELSE StakeOfFirst(validator_signatures, n - 1) + validator_signatures[n].stake

\* C13: every stored checkpoint has all of its validator signatures
\* verifying over the payload checkpoint:height:block_hash:epoch:state_root
\* against their stated public keys; a checkpoint with a signature that does
\* not verify is never stored.
C13_StoredCheckpointsVerify ==
    \A i \in 1..Len(checkpoints) :
        VerifyingSignatures(checkpoints[i].validator_signatures,
                            PayloadOf(checkpoints[i].height, checkpoints[i].block_hash,
                                      checkpoints[i].epoch, checkpoints[i].state_root))
            = 1..Len(checkpoints[i].validator_signatures)

\* C14: with a known total network stake, create_checkpoint fails and stores
\* nothing when the signed stake is under 67% of the total; with validly
\* signed stake of at least 67% it succeeds and get_latest_checkpoint returns
\* a checkpoint at the block's height; with the total unknown (0) the stake
\* does not decide.
C14_StakeThreshold ==
    [][last_op'.op = "create_checkpoint" =>
          LET signatures == last_op'.validator_signatures
              block == last_op'.block
              signed == StakeOfFirst(signatures, Len(signatures))
              all_verify ==
                  /\ signatures # <<>>
                  /\ VerifyingSignatures(signatures,
                         PayloadOf(block.header.height, block.hash, block.header.epoch,
                                   block.header.merkle_root)) = 1..Len(signatures)
              stored == /\ last_op'.ok
                        /\ Len(checkpoints') = Len(checkpoints) + 1
                        /\ last_op'.latest # None
                        /\ last_op'.latest[1].height = block.header.height
                        /\ last_op'.latest[1].total_stake_signed = signed
          IN  /\ (total_network_stake > 0
                    /\ signed * 100 < MINIMUM_STAKE_PERCENTAGE * total_network_stake)
                 => (~last_op'.ok /\ checkpoints' = checkpoints)
              /\ (total_network_stake > 0 /\ all_verify
                    /\ signed * 100 >= MINIMUM_STAKE_PERCENTAGE * total_network_stake)
                 => stored
              /\ (total_network_stake = 0 /\ all_verify) => stored]_vars

\* A checkpoint at height 200, validly signed by exactly 67% of a known
\* total, was stored after one at height 100 and is the latest.
C14_Witness ==
    /\ last_op.op = "create_checkpoint"
    /\ last_op.ok
    /\ total_network_stake = 10000
    /\ Len(checkpoints) = 2
    /\ checkpoints[1].height = 100
    /\ last_op.latest[1].height = 200
    /\ last_op.latest[1].total_stake_signed = 6700
    /\ C13_StoredCheckpointsVerify

(***************************************************************************)
(* SpecFork: the fork detector alone, fed competing blocks in every order. *)
(***************************************************************************)
\* A block as record_block reads it.
ForkBlock(height, hash, emotional_score, consensus_strength, timestamp) ==
    [header |-> [height |-> height, emotional_score |-> emotional_score,
                 consensus_strength |-> consensus_strength, timestamp |-> timestamp],
     hash |-> hash]

\* At height 1: a lower score, a lower strength, a later timestamp, and two
\* blocks equal in all three.  At height 2: two blocks equal in all three.
ForkBlocks ==
    {ForkBlock(1, "hash1", 85, 80, 1000), ForkBlock(1, "hash2", 90, 70, 1000),
     ForkBlock(1, "hash3", 90, 80, 2000), ForkBlock(1, "hash4", 90, 80, 1000),
     ForkBlock(1, "hash5", 90, 80, 1000), ForkBlock(2, "hash6", 85, 80, 1000),
     ForkBlock(2, "hash7", 85, 80, 1000)}

ForkHeights == {1, 2, 3}

InitFork ==
    /\ config = NewConfig(1, MIN_BYZANTINE_THRESHOLD)
    /\ EngineNew /\ DetectorNew /\ CheckpointNew /\ LedgerNew /\ ForkDetectorNew
    /\ last_op = [op |-> "new"]

FdRecordBlock(block, pos) ==
    \E r \in {record_block(fork_detector, block, pos, now)} :
        /\ fork_detector' = r.fork_detector
        /\ last_op' = [op |-> "record_block", block |-> block, ok |-> r.ok, err |-> r.err]
        /\ UNCHANGED <<engine_vars, detector_vars, checkpoint_vars, ledger_vars>>

FdResolveFork(height) ==
    \E r \in {resolve_fork(fork_detector, height)} :
        /\ fork_detector' = r.fork_detector
        /\ last_op' = [op |-> "resolve_fork", height |-> height, ok |-> r.result = "ok",
                       result |-> r.result, hash |-> r.hash]
        /\ UNCHANGED <<engine_vars, detector_vars, checkpoint_vars, ledger_vars>>

NextFork ==
    \/ \E block \in ForkBlocks :
           \E pos \in 1..(Len(Lookup(fork_detector.blocks_at_height,
                                     block.header.height)) + 1) :
               /\ \/ block.hash \in DOMAIN fork_detector.block_metadata
                  \/ Cardinality(DOMAIN fork_detector.block_metadata) < MaxForkBlocks
               /\ FdRecordBlock(block, pos)
    \/ \E height \in ForkHeights : FdResolveFork(height)

SpecFork == InitFork /\ [][NextFork]_vars

\* The hashes recorded at a height.
HashesAt(fd, height) ==
    {Lookup(fd.blocks_at_height, height)[i] :
         i \in 1..Len(Lookup(fd.blocks_at_height, height))}

\* C16: record_block of a block at a height whose set already holds a
\* different hash returns ForkDetected(height), appends exactly one ForkInfo
\* listing all competing hashes, and adds the hash, so that has_fork(height)
\* is true afterwards; the first block at a height, or a hash already
\* recorded there, returns Ok and records no fork.
C16_RecordBlock ==
    [][last_op'.op = "record_block" =>
          LET height == last_op'.block.header.height
              hash == last_op'.block.hash
              before == HashesAt(fork_detector, height)
              after == HashesAt(fork_detector', height)
          IN  /\ after = before \cup {hash}
              /\ IF before # {} /\ hash \notin before
                 THEN /\ ~last_op'.ok
                      /\ last_op'.err = <<"ForkDetected", height>>
                      /\ Len(fork_detector'.forks) = Len(fork_detector.forks) + 1
                      /\ SubSeq(fork_detector'.forks, 1, Len(fork_detector.forks))
                             = fork_detector.forks
                      /\ LET info == fork_detector'.forks[Len(fork_detector'.forks)]
                         IN  /\ info.height = height
                             /\ Len(info.competing_hashes) = Cardinality(after)
                             /\ {info.competing_hashes[i] :
                                     i \in 1..Len(info.competing_hashes)} = after
                             /\ info.winning_hash = None
                      /\ Cardinality(after) > 1
                      /\ has_fork(fork_detector', height)
                 ELSE /\ last_op'.ok
                      /\ fork_detector'.forks = fork_detector.forks
                      /\ has_fork(fork_detector', height) = has_fork(fork_detector, height)]_vars

\* A third competing block was just reported at height 1: the second
\* ForkInfo lists the three hashes.
C16_Witness ==
    /\ last_op.op = "record_block"
    /\ ~last_op.ok
    /\ last_op.err = <<"ForkDetected", 1>>
    /\ Len(fork_detector.forks) = 2
    /\ Len(fork_detector.forks[2].competing_hashes) = 3
    /\ has_fork(fork_detector, 1)

\* a is at least as good as b under the fork choice rule: a higher score;
\* or the same score and a higher strength; or the same score and strength
\* and a timestamp that is not later.
AtLeastAsGood(a, b) ==
    \/ a.emotional_score > b.emotional_score
    \/ a.emotional_score = b.emotional_score /\ a.consensus_strength > b.consensus_strength
    \/ /\ a.emotional_score = b.emotional_score
       /\ a.consensus_strength = b.consensus_strength
       /\ a.timestamp <= b.timestamp

\* C17: resolve_fork(height) returns, among the hashes recorded at the
\* height, one with the highest emotional score, among those the highest
\* consensus strength, among those the earliest timestamp, and marks the
\* (earliest) unresolved ForkInfo of the height with this winner, leaving the
\* other ForkInfos as they were.
C17_ForkChoice ==
    [][(last_op'.op = "resolve_fork" /\ HashesAt(fork_detector, last_op'.height) # {}) =>
          LET height == last_op'.height
              hashes == HashesAt(fork_detector, height)
              unresolved == {i \in 1..Len(fork_detector.forks) :
                                 /\ fork_detector.forks[i].height = height
                                 /\ fork_detector.forks[i].winning_hash = None}
          IN  /\ last_op'.ok
              /\ last_op'.hash # None
              /\ last_op'.hash[1] \in hashes
              /\ \A other \in hashes :
                     AtLeastAsGood(fork_detector.block_metadata[last_op'.hash[1]],
                                   fork_detector.block_metadata[other])
              /\ Len(fork_detector'.forks) = Len(fork_detector.forks)
              /\ \A i \in 1..Len(fork_detector.forks) :
                     \/ fork_detector'.forks[i] = fork_detector.forks[i]
                     \/ /\ i \in unresolved
                        /\ fork_detector'.forks[i] =
                               [fork_detector.forks[i] EXCEPT
                                    !.winning_hash = last_op'.hash,
                                    !.resolution_method = Some("Emotional Score Rule")]
              /\ unresolved # {} =>
                     \E i \in unresolved :
                         /\ fork_detector'.forks[i].winning_hash = last_op'.hash
                         /\ \A j \in unresolved : i <= j
              /\ fork_detector'.blocks_at_height = fork_detector.blocks_at_height]_vars

\* The fork at height 1 between hash2 (lower strength), hash3 (later
\* timestamp) and hash4 was just resolved for hash4 and is marked so.
C17_Witness ==
    /\ last_op.op = "resolve_fork"
    /\ last_op.height = 1
    /\ last_op.hash = Some("hash4")
    /\ HashesAt(fork_detector, 1) = {"hash2", "hash3", "hash4"}
    /\ fork_detector.forks[1].winning_hash = Some("hash4")

\* The detectors left by recording a set of blocks, each once, in any order,
\* every hash landing anywhere in the iteration order of its set.
RECURSIVE RecordedInAnyOrder(_, _)
RecordedInAnyOrder(fd, blocks) ==
    IF blocks = {} THEN {fd}
    ELSE UNION {UNION {RecordedInAnyOrder(record_block(fd, b, pos, now).fork_detector,
                                          blocks \ {b}) :
                           pos \in 1..(Len(Lookup(fd.blocks_at_height,
                                                  b.header.height)) + 1)} :
                    b \in blocks}

\* C18: for any set of competing blocks at a height, resolve_fork returns
\* the same winner in whatever order the blocks were recorded, and returns
\* the same winner when called again, also when competing blocks are equal
\* in emotional score, consensus strength and timestamp.
C18_ForkDeterminism ==
    \A height \in DOMAIN fork_detector.blocks_at_height :
        LET resolved == resolve_fork(fork_detector, height)
            recorded == {b \in ForkBlocks : b.hash \in HashesAt(fork_detector, height)}
        IN  /\ resolve_fork(resolved.fork_detector, height).hash = resolved.hash
            /\ \A fd \in RecordedInAnyOrder(NewForkDetector, recorded) :
                   resolve_fork(fd, height).hash = resolved.hash

(***************************************************************************)
(* SpecLifecycle: start, stop and the tasks start spawns, step by step, on *)
(* an engine without validators (every epoch ends in "no eligible          *)
(* validators").  An epoch loop is at "select" (waiting in select! with a  *)
(* fresh Notified future), "notified" (still there, its Notified future    *)
(* completed by stop), "checked" (the tick branch read is_running = true), *)
(* "executing" (in execute_epoch) or "exited".  A cleaner is "waiting" or  *)
(* "exited".                                                               *)
(***************************************************************************)
InitLifecycle ==
    /\ config = NewConfig(1, MIN_BYZANTINE_THRESHOLD)
    /\ EngineNew /\ DetectorNew /\ CheckpointNew /\ LedgerNew /\ ForkDetectorNew
    /\ last_op = [op |-> "new"]

\* Variant of the tick branch: the loop goes on whatever is_running holds.
AfterTick_unchecked(running) == "checked"

\* The tick branch of epoch_loop and the cleaner's loop: break unless running.
AfterTick(running) == IF running THEN "checked" ELSE "exited"

\* notify_waiters completes the Notified futures that exist: those of the
\* loops waiting in select!.
NotifyWaiters(loops) ==
    [i \in DOMAIN loops |-> IF loops[i] = "select" THEN "notified" ELSE loops[i]]

LcStart ==
    /\ \/ /\ is_running
          /\ last_op' = [op |-> "start", ok |-> FALSE, err |-> "AlreadyRunning"]
          /\ UNCHANGED <<is_running, tasks>>
       \/ /\ ~is_running
          /\ Len(tasks.epoch_loops) < MaxStarts
          /\ is_running' = TRUE
          /\ tasks' = [epoch_loops |-> Append(tasks.epoch_loops, "select"),
                       cleaners |-> Append(tasks.cleaners, "waiting")]
          /\ last_op' = [op |-> "start", ok |-> TRUE, err |-> "none"]
    /\ UNCHANGED <<config, validators, state, finalized_blocks, pending_transactions,
                   metrics, now, epoch_loop, ticks>>
    /\ UNCHANGED <<detector_vars, checkpoint_vars, ledger_vars, fork_detector>>

LcStop ==
    /\ \/ /\ ~is_running
          /\ last_op' = [op |-> "stop", ok |-> FALSE, err |-> "NotRunning"]
          /\ UNCHANGED <<is_running, tasks>>
       \/ /\ is_running
          /\ is_running' = FALSE
          /\ tasks' = [tasks EXCEPT !.epoch_loops = NotifyWaiters(@)]
          /\ last_op' = [op |-> "stop", ok |-> TRUE, err |-> "none"]
    /\ UNCHANGED <<config, validators, state, finalized_blocks, pending_transactions,
                   metrics, now, epoch_loop, ticks>>
    /\ UNCHANGED <<detector_vars, checkpoint_vars, ledger_vars, fork_detector>>

\* The epochs begun and about to begin.
EpochsTaken ==
    state.current_epoch
        + Cardinality({i \in DOMAIN tasks.epoch_loops : tasks.epoch_loops[i] = "checked"})

\* select! takes the tick branch: is_running is read.
LoopTick(i) ==
    /\ tasks.epoch_loops[i] \in {"select", "notified"}
    /\ is_running => EpochsTaken < MaxLifecycleEpochs
    /\ tasks' = [tasks EXCEPT !.epoch_loops[i] = AfterTick(is_running)]
    /\ last_op' = [op |-> "epoch_loop", task |-> i, step |-> "tick"]
    /\ UNCHANGED <<config, validators, state, finalized_blocks, pending_transactions,
                   metrics, now, is_running, epoch_loop, ticks>>
    /\ UNCHANGED <<detector_vars, checkpoint_vars, ledger_vars, fork_detector>>

\* select! takes the shutdown branch.
LoopShutdown(i) ==
    /\ tasks.epoch_loops[i] = "notified"
    /\ tasks' = [tasks EXCEPT !.epoch_loops[i] = "exited"]
    /\ last_op' = [op |-> "epoch_loop", task |-> i, step |-> "shutdown"]
    /\ UNCHANGED <<config, validators, state, finalized_blocks, pending_transactions,
                   metrics, now, is_running, epoch_loop, ticks>>
    /\ UNCHANGED <<detector_vars, checkpoint_vars, ledger_vars, fork_detector>>

\* execute_epoch begins: the epoch number is taken.
LoopBeginsEpoch(i) ==
    /\ tasks.epoch_loops[i] = "checked"
    /\ tasks' = [tasks EXCEPT !.epoch_loops[i] = "executing"]
    /\ state' = [state EXCEPT !.current_epoch = @ + 1]
    /\ last_op' = [op |-> "epoch_loop", task |-> i, step |-> "begin"]
    /\ UNCHANGED <<config, validators, finalized_blocks, pending_transactions,
                   metrics, now, is_running, epoch_loop, ticks>>
    /\ UNCHANGED <<detector_vars, checkpoint_vars, ledger_vars, fork_detector>>

\* execute_epoch returns its error (no validator is eligible) and the loop
\* counts it; the loop is back in select! with a new Notified future.
LoopEndsEpoch(i) ==
    /\ tasks.epoch_loops[i] = "executing"
    /\ tasks' = [tasks EXCEPT !.epoch_loops[i] = "select"]
    /\ metrics' = [metrics EXCEPT !.failed_epochs = @ + 1]
    /\ last_op' = [op |-> "epoch_loop", task |-> i, step |-> "end"]
    /\ UNCHANGED <<config, validators, state, finalized_blocks, pending_transactions,
                   now, is_running, epoch_loop, ticks>>
    /\ UNCHANGED <<detector_vars, checkpoint_vars, ledger_vars, fork_detector>>

LoopStep(i) == LoopTick(i) \/ LoopShutdown(i) \/ LoopBeginsEpoch(i) \/ LoopEndsEpoch(i)

\* The cleaner's tick: it ends unless the engine runs; the sweep of a running
\* engine finds the empty pool as it is.
CleanerTick(i) ==
    /\ tasks.cleaners[i] = "waiting"
    /\ tasks' = [tasks EXCEPT !.cleaners[i] =
                                  IF AfterTick(is_running) = "exited" THEN "exited"
                                  ELSE "waiting"]
    /\ last_op' = [op |-> "cleaner", task |-> i, step |-> "tick"]
    /\ UNCHANGED <<config, validators, state, finalized_blocks, pending_transactions,
                   metrics, now, is_running, epoch_loop, ticks>>
    /\ UNCHANGED <<detector_vars, checkpoint_vars, ledger_vars, fork_detector>>

NextLifecycle ==
    \/ LcStart
    \/ LcStop
    \/ \E i \in DOMAIN tasks.epoch_loops : LoopTick(i)
    \/ \E i \in DOMAIN tasks.epoch_loops : LoopShutdown(i)
    \/ \E i \in DOMAIN tasks.epoch_loops : LoopBeginsEpoch(i)
    \/ \E i \in DOMAIN tasks.epoch_loops : LoopEndsEpoch(i)
    \/ \E i \in DOMAIN tasks.cleaners : CleanerTick(i)

SpecLifecycle == InitLifecycle /\ [][NextLifecycle]_vars

\* The runtime polls every task that can run and every interval ticks.
SpecLifecycleFair ==
    /\ SpecLifecycle
    /\ \A i \in 1..MaxStarts :
           /\ WF_vars(i \in DOMAIN tasks.epoch_loops /\ LoopStep(i))
           /\ WF_vars(i \in DOMAIN tasks.cleaners /\ CleanerTick(i))

\* The tasks that have not returned.
AliveLoops == {i \in DOMAIN tasks.epoch_loops : tasks.epoch_loops[i] # "exited"}
AliveCleaners == {i \in DOMAIN tasks.cleaners : tasks.cleaners[i] # "exited"}

C20_SingleLoop ==
    /\ Cardinality(AliveLoops) <= 1
    /\ Cardinality({i \in DOMAIN tasks.epoch_loops :
                        tasks.epoch_loops[i] = "executing"}) <= 1

(***************************************************************************)
(* Spec: the engine.  An epoch runs from tick to result in one step.       *)
(***************************************************************************)
ScoreSet == {70, 80}
RegistryStakes == {MIN_VALIDATOR_STAKE - 1, MIN_VALIDATOR_STAKE}
TxHashes == {"t1"}
ClockTick == MAX_TX_AGE + 1
SignatureKinds == {"none", "forged", "signed"}

\* The signatures handed to create_checkpoint for a block: none, one made by
\* another key than the stated public key, or one by the validator v1.
CheckpointSignatures(kind, block) ==
    IF kind = "none" THEN <<>>
    ELSE <<NewValidatorSignature("v1", MIN_VALIDATOR_STAKE,
               sign_checkpoint(block.header.height, block.hash, block.header.epoch,
                               block.header.merkle_root,
                               IF kind = "signed" THEN "v1" ELSE "intruder"),
               "v1")>>

Init ==
    /\ config \in {NewConfig(1, MIN_BYZANTINE_THRESHOLD),
                   NewConfig(2, DEFAULT_BYZANTINE_THRESHOLD)}
    /\ ValidConfig(config)
    /\ EngineNew /\ DetectorNew /\ CheckpointNew /\ LedgerNew /\ ForkDetectorNew
    /\ last_op = [op |-> "new"]

RegisterValidator(id, stake, pos) ==
    LET r == register_validator(validators, config, NewValidator(id, stake), pos)
    IN  /\ r.ok
        /\ validators' = r.validators
        /\ UNCHANGED <<last_op, config, state, finalized_blocks, pending_transactions, metrics,
                       now, is_running, epoch_loop, ticks, tasks>>
        /\ UNCHANGED <<detector_vars, checkpoint_vars, ledger_vars, fork_detector>>

\* submit_transaction
submit_transaction(transaction) ==
    /\ pending_transactions' = Append(pending_transactions, transaction)
    /\ state' = [state EXCEPT !.pending_transactions = Len(pending_transactions')]
    /\ UNCHANGED <<last_op, config, validators, finalized_blocks, metrics, now, is_running,
                   epoch_loop, ticks, tasks>>
    /\ UNCHANGED <<detector_vars, checkpoint_vars, ledger_vars, fork_detector>>

\* submit_transaction of a transaction created now.
SubmitTransaction(hash, valid) ==
    /\ Len(pending_transactions) < MaxPending
    /\ submit_transaction([hash |-> hash, valid |-> valid, timestamp |-> now])

AdvanceTime ==
    /\ now < MaxClockSteps * ClockTick
    /\ now' = now + ClockTick
    /\ UNCHANGED <<last_op, config, validators, state, finalized_blocks, pending_transactions,
                   metrics, is_running, epoch_loop, ticks, tasks>>
    /\ UNCHANGED <<detector_vars, checkpoint_vars, ledger_vars, fork_detector>>

\* start: Err(AlreadyRunning) while running; else the epoch loop is spawned.
Start ==
    /\ ~is_running
    /\ is_running' = TRUE
    /\ epoch_loop' = "running"
    /\ UNCHANGED <<last_op, config, validators, state, finalized_blocks, pending_transactions,
                   metrics, now, ticks, tasks>>
    /\ UNCHANGED <<detector_vars, checkpoint_vars, ledger_vars, fork_detector>>

\* stop: Err(NotRunning) unless running; else the waiting epoch loop takes
\* the shutdown signal and ends.
Stop ==
    /\ is_running
    /\ is_running' = FALSE
    /\ epoch_loop' = IF epoch_loop = "running" THEN "none" ELSE epoch_loop
    /\ UNCHANGED <<last_op, config, validators, state, finalized_blocks, pending_transactions,
                   metrics, now, ticks, tasks>>
    /\ UNCHANGED <<detector_vars, checkpoint_vars, ledger_vars, fork_detector>>

\* The writes of a tick of epoch_loop whose execute_epoch ended with `result`:
\* "no_eligible", "double_sign", "quorum_failed" (errors), "panic" (the
\* division by zero participants, which ends the task) or "ok".
EpochEnds(result, epoch, committee, proposed, voting, vs, props, vts, events, finalized) ==
    LET ok == result = "ok"
        pool == IF ok THEN ReapedPool(pending_transactions, finalized[1], now)
                ELSE pending_transactions
        byzantine_count == IF voting = None THEN 0 ELSE voting[1].byzantine_count
    IN  /\ ticks' = ticks + 1
        /\ validators' = vs
        /\ proposals' = props
        /\ votes' = vts
        /\ slashing_events' = events
        /\ finalized_blocks' = FinalizedLog(finalized_blocks, result, finalized)
        /\ pending_transactions' = pool
        /\ state' = StateAfterEpoch(state, result, epoch, voting, finalized, pool,
                                    Len(validators))
        /\ metrics' =
               [metrics EXCEPT
                   !.byzantine_failures = @ + byzantine_count,
                   !.blocks_finalized = IF ok THEN @ + 1 ELSE @,
                   !.transactions_processed =
                       IF ok THEN @ + Len(finalized[1].transactions) ELSE @,
                   !.total_epochs = IF ok THEN @ + 1 ELSE @,
                   !.successful_epochs = IF ok THEN @ + 1 ELSE @,
                   !.failed_epochs = IF ok \/ result = "panic" THEN @ ELSE @ + 1]
        /\ epoch_loop' = IF result = "panic" THEN "panicked" ELSE "running"
        /\ last_op' = [op |-> "execute_epoch", result |-> result, epoch |-> epoch,
                       committee |-> committee, proposed |-> proposed,
                       voting |-> voting]
        /\ UNCHANGED <<config, now, is_running, tasks>>
        /\ UNCHANGED <<checkpoint_vars, ledger_vars, fork_detector>>

\* One tick of epoch_loop: execute_epoch, phase by phase, and the metrics of
\* its result.
EpochLoopTick(scores) ==
    /\ is_running
    /\ epoch_loop = "running"
    /\ \E epoch \in {state.current_epoch + 1} :
       \E assessed \in {AssessedValidators(validators, scores)} :
       \E eligible \in {EligibleOf(assessed, config)} :
       IF eligible = <<>>
       THEN EpochEnds("no_eligible", epoch, <<>>, None, None, assessed, proposals,
                      votes, slashing_events, None)
       ELSE
       \E committee \in {select_committee(eligible, config.committee_size)} :
       \E block \in {ProposedBlock(assessed, committee, finalized_blocks,
                                   pending_transactions, epoch, now)} :
       \E proposal \in {record_proposal(proposals, slashing_events, committee[1],
                                        block.header.height, block.hash)} :
       IF ~proposal.ok
       THEN EpochEnds("double_sign", epoch, committee, Some(block), None,
                      slash_validator(assessed, committee[1]), proposals, votes,
                      proposal.slashing_events, None)
       ELSE
       \E voted \in {CastVotes(committee, 1, block, finalized_blocks, epoch,
                               [votes |-> votes, slashing_events |-> slashing_events,
                                validators |-> assessed, time |-> now,
                                approved_count |-> 0, total_emotional_score |-> 0,
                                participant_count |-> 0, byzantine_count |-> 0])} :
       IF voted.participant_count = 0
       THEN EpochEnds("panic", epoch, committee, Some(block), None, voted.validators,
                      proposal.proposals, voted.votes, voted.slashing_events, None)
       ELSE
       \E voting \in {VotingResult(voted, committee, config)} :
       IF ~voting.success
       THEN EpochEnds("quorum_failed", epoch, committee, Some(block), Some(voting),
                      voted.validators, proposal.proposals, voted.votes,
                      voted.slashing_events, None)
       ELSE EpochEnds("ok", epoch, committee, Some(block), Some(voting),
                      voted.validators, proposal.proposals, voted.votes,
                      voted.slashing_events, Some(FinalizedBlock(block, voting, now)))

\* The first MaxEpochs ticks of epoch_loop.
EpochTick(scores) == ticks < MaxEpochs /\ EpochLoopTick(scores)

\* Variant of the sweep: nothing is retained.
SweptPool_empties(pending, time) == <<>>

\* cleanup_transaction_pool: what pending.retain leaves.
SweptPool(pending, time) ==
    SelectSeq(pending, LAMBDA tx : ~is_expired(tx, time, MAX_TX_AGE))

\* The periodic cleanup task of a running engine: cleanup_transaction_pool.
\* A sweep that finds nothing expired leaves everything as it is.
CleanupTransactionPool ==
    LET pool == SweptPool(pending_transactions, now)
    IN  /\ is_running
        /\ Len(pool) < Len(pending_transactions)
        /\ pending_transactions' = pool
        /\ state' = [state EXCEPT !.pending_transactions = Len(pool)]
        /\ UNCHANGED <<last_op, config, validators, finalized_blocks, metrics, now, is_running,
                       epoch_loop, ticks, tasks>>
        /\ UNCHANGED <<detector_vars, checkpoint_vars, ledger_vars, fork_detector>>

\* get_checkpoint_manager().create_checkpoint for the finalized block i.
CreateCheckpoint(i, kind) ==
    LET r == create_checkpoint(checkpoints, total_network_stake, finalized_blocks[i],
                               CheckpointSignatures(kind, finalized_blocks[i]))
    IN  /\ Len(checkpoints) < MaxCheckpoints
        /\ r.ok
        /\ checkpoints' = r.checkpoints
        /\ UNCHANGED <<last_op, total_network_stake, engine_vars, detector_vars, ledger_vars, fork_detector>>

RecoverFromCrash(pos) ==
    LET r == recover_from_crash(state, fork_detector, finalized_blocks, checkpoints,
                                total_network_stake, pos, now)
    IN  /\ state' = r.state
        /\ fork_detector' = r.fork_detector
        /\ last_op' = [op |-> "recover_from_crash", ok |-> r.ok]
        /\ UNCHANGED <<config, validators, finalized_blocks, pending_transactions,
                       metrics, now, is_running, epoch_loop, ticks, tasks>>
        /\ UNCHANGED <<detector_vars, checkpoint_vars, ledger_vars>>

Next ==
    \/ \E id \in ValidatorIds, stake \in RegistryStakes, pos \in 1..(Len(validators) + 1) :
           RegisterValidator(id, stake, pos)
    \/ \E hash \in TxHashes, valid \in BOOLEAN : SubmitTransaction(hash, valid)
    \/ AdvanceTime
    \/ Start
    \/ Stop
    \/ \E scores \in [ValidatorIds -> ScoreSet] : EpochTick(scores)
    \/ CleanupTransactionPool
    \/ \E i \in 1..Len(finalized_blocks), sigs \in SignatureKinds : CreateCheckpoint(i, sigs)
    \/ \E pos \in 1..2 : RecoverFromCrash(pos)

Spec == Init /\ [][Next]_vars

(***************************************************************************)
(* SpecVoting: committee members validate blocks, their own and foreign    *)
(* ones, against an expected (previous hash, height, epoch) and vote.      *)
(***************************************************************************)
\* Blocks as a proposer builds and signs them, with a replayed parent hash,
\* height or epoch, and the same blocks with a header changed afterwards.
VotingBlocks ==
    LET built == {Block_new(height, epoch, previous_hash, "v1", 80, transactions, 0) :
                      height \in {1, 2}, epoch \in {1, 2},
                      previous_hash \in {GenesisPreviousHash, <<"parent">>},
                      transactions \in {<<>>, <<[hash |-> "t1", valid |-> FALSE,
                                                 timestamp |-> 0]>>}}
    IN  built \cup {[b EXCEPT !.header.emotional_score = 81] : b \in built}

InitVoting ==
    /\ config = NewConfig(2, DEFAULT_BYZANTINE_THRESHOLD)
    /\ EngineNew /\ DetectorNew /\ CheckpointNew /\ LedgerNew /\ ForkDetectorNew
    /\ last_op = [op |-> "new"]

\* One turn of the loop of execute_voting: the member validates the block,
\* its vote carries the reason, the detector records the vote, and a member
\* the detector reports is slashed.
MemberVotes(id, block, expected_previous_hash, expected_height, expected_epoch) ==
    LET validation_result == validate_block(block, expected_previous_hash,
                                            expected_height, expected_epoch, now)
        approved == validation_result = None
        vote == [NewVote(id, block.hash, block.header.epoch,
                         validators[IndexOf(validators, id)].emotional_score, approved)
                     EXCEPT !.reason = validation_result]
        r == record_vote(votes, slashing_events, vote)
    IN  /\ SumLen(votes, DOMAIN votes) + Len(slashing_events) < MaxMemberVotes
        /\ IndexOf(validators, id) # 0
        /\ votes' = r.votes
        /\ slashing_events' = r.slashing_events
        /\ validators' = IF r.ok THEN validators ELSE slash_validator(validators, id)
        /\ last_op' = [op |-> "execute_voting", block |-> block,
                       expected_previous_hash |-> expected_previous_hash,
                       expected_height |-> expected_height,
                       expected_epoch |-> expected_epoch,
                       vote |-> vote, counted |-> r.ok]
        /\ UNCHANGED <<config, state, finalized_blocks, pending_transactions, metrics,
                       now, is_running, epoch_loop, ticks, tasks>>
        /\ UNCHANGED <<proposals, checkpoint_vars, ledger_vars, fork_detector>>

NextVoting ==
    \/ \E id \in ValidatorIds : RegisterValidator(id, MIN_VALIDATOR_STAKE, 1)
    \/ \E id \in ValidatorIds, block \in VotingBlocks, expected_epoch \in {1, 2} :
           MemberVotes(id, block, GenesisPreviousHash, 1, expected_epoch)

SpecVoting == InitVoting /\ [][NextVoting]_vars

(***************************************************************************)
(* SpecScores: the engine with two validators whose profiles, stakes and   *)
(* reputations are also changed through the validators' own operations,    *)
(* and a stake ledger entry that is slashed.                               *)
(***************************************************************************)
Reading(biometric_type, value, quality) ==
    [biometric_type |-> biometric_type, value |-> value, quality |-> quality]

\* Lists of readings with a quality of -1, 0, 3/4 and 1 (in quarters): none,
\* one without weight, and lists whose weighted mean is 100, negative, and
\* 250.
ReadingLists ==
    {<<>>,
     <<Reading("HeartRate", 70, 0)>>,
     <<Reading("HeartRate", 70, 4)>>,
     <<Reading("HeartRate", 120, 0 - 4), Reading("StressLevel", 0 - 10, 3)>>,
     <<Reading("HeartRate", 70, 0 - 4), Reading("HeartRate", 120, 3)>>}

\* What BiometricSimulator::collect_readings returns: heart rate, stress
\* level and focus level of one quality (a weighted mean of 86.33).
SimulatedReadings ==
    {<<Reading("HeartRate", heart_rate, 4), Reading("StressLevel", 30, 4),
       Reading("FocusLevel", 89, 4)>> : heart_rate \in {70}}

ReputationAdjustments == {0 - 100, 100}

InitScores ==
    /\ config = NewConfig(2, DEFAULT_BYZANTINE_THRESHOLD)
    /\ EngineNew /\ DetectorNew /\ CheckpointNew /\ LedgerNew /\ ForkDetectorNew
    /\ last_op = [op |-> "new"]

UpdateEmotionalState(id, readings) ==
    /\ IndexOf(validators, id) # 0
    /\ validators' = [validators EXCEPT ![IndexOf(validators, id)] =
                          update_emotional_state(@, readings)]
    /\ UNCHANGED <<last_op, config, state, finalized_blocks, pending_transactions, metrics,
                   now, is_running, epoch_loop, ticks, tasks>>
    /\ UNCHANGED <<detector_vars, checkpoint_vars, ledger_vars, fork_detector>>

AdjustReputation(id, adjustment) ==
    /\ IndexOf(validators, id) # 0
    /\ validators' = [validators EXCEPT ![IndexOf(validators, id)].reputation =
                          adjust_reputation(@, adjustment)]
    /\ UNCHANGED <<last_op, config, state, finalized_blocks, pending_transactions, metrics,
                   now, is_running, epoch_loop, ticks, tasks>>
    /\ UNCHANGED <<detector_vars, checkpoint_vars, ledger_vars, fork_detector>>

ApplySlashing(id, amount) ==
    /\ IndexOf(validators, id) # 0
    /\ validators' = [validators EXCEPT ![IndexOf(validators, id)] =
                          apply_slashing(@, amount)]
    /\ UNCHANGED <<last_op, config, state, finalized_blocks, pending_transactions, metrics,
                   now, is_running, epoch_loop, ticks, tasks>>
    /\ UNCHANGED <<detector_vars, checkpoint_vars, ledger_vars, fork_detector>>

NextScores ==
    \/ \E id \in ValidatorIds : RegisterValidator(id, MIN_VALIDATOR_STAKE, 1)
    \/ \E readings \in ReadingLists : UpdateEmotionalState("v1", readings)
    \/ \E adjustment \in ReputationAdjustments : AdjustReputation("v1", adjustment)
    \/ ApplySlashing("v1", 3 * (MIN_VALIDATOR_STAKE \div 4))
    \/ SubmitTransaction("t1", FALSE)
    \/ Start
    \/ \E readings \in [ValidatorIds -> SimulatedReadings] :
           EpochTick([id \in ValidatorIds |-> calculate_emotional_score(readings[id])[1]])
    \/ LedRegister("v1", MIN_VALIDATOR_STAKE, 0)
    \/ Len(ledger_events) < MaxLedgerEvents /\ LedSlash("v1", "DoubleSigning")

SpecScores == InitScores /\ [][NextScores]_vars

(***************************************************************************)
(* SpecRegister: registrations, accepted and refused, at the engine and at *)
(* the stake ledger.                                                       *)
(***************************************************************************)
RegisterStakes == {MIN_VALIDATOR_STAKE - 1, MIN_VALIDATOR_STAKE, MIN_VALIDATOR_STAKE + 1}
RegisterCommissions == {0, MAX_COMMISSION, MAX_COMMISSION + 1}

\* register_validator of the engine with its result, refused or not.
EngRegister(id, stake, pos) ==
    LET r == register_validator(validators, config, NewValidator(id, stake), pos)
    IN  /\ validators' = r.validators
        /\ last_op' = [op |-> "engine_register_validator", validator_id |-> id,
                       arg |-> stake, ok |-> r.ok, err |-> r.err]
        /\ UNCHANGED <<config, state, finalized_blocks, pending_transactions, metrics,
                       now, is_running, epoch_loop, ticks, tasks>>
        /\ UNCHANGED <<detector_vars, checkpoint_vars, ledger_vars, fork_detector>>

NextRegister ==
    \/ \E id \in ValidatorIds, stake \in RegisterStakes, pos \in 1..(Len(validators) + 1) :
           EngRegister(id, stake, pos)
    \/ \E id \in ValidatorIds, stake \in RegisterStakes, commission \in RegisterCommissions :
           LedRegister(id, stake, commission)

SpecRegister == Init /\ [][NextRegister]_vars

(***************************************************************************)
(* SpecStrength: up to MaxStrengthCommittee validators register, the       *)
(* engine starts and executes an epoch, modelled from the tally of the     *)
(* votes on, under configurations with the largest committee sizes and     *)
(* every threshold the constructor accepts.                                *)
(***************************************************************************)
InitStrength ==
    /\ \E cs \in (MaxStrengthCommittee - 1)..MaxStrengthCommittee :
       \E bt \in MIN_BYZANTINE_THRESHOLD..MAX_BYZANTINE_THRESHOLD :
           config = NewConfig(cs, bt)
    /\ ValidConfig(config)
    /\ EngineNew /\ DetectorNew /\ CheckpointNew /\ LedgerNew /\ ForkDetectorNew
    /\ last_op = [op |-> "new"]

\* The next validator, numbered from 1, registers before the engine starts.
RegisterNext ==
    /\ ~is_running
    /\ Len(validators) < MaxStrengthCommittee
    /\ RegisterValidator(Len(validators) + 1, MIN_VALIDATOR_STAKE, Len(validators) + 1)

\* execute_epoch with every validator eligible, from the end of the voting
\* loop: all votes of the committee count, approved_count of them approvals.
EpochOfTally(approved_count) ==
    /\ is_running
    /\ epoch_loop = "running"
    /\ ticks < MaxStrengthEpochs
    /\ validators # <<>>
    /\ \E epoch \in {state.current_epoch + 1} :
       \E assessed \in {AssessedValidators(validators,
                                           [i \in 1..Len(validators) |-> 80])} :
       \E committee \in {[i \in 1..Min(config.committee_size, Len(validators)) |-> i]} :
       \E block \in {ProposedBlock(assessed, committee, finalized_blocks,
                                   pending_transactions, epoch, now)} :
       \E voting \in {VotingResult([approved_count |-> approved_count,
                                    participant_count |-> Len(committee),
                                    byzantine_count |-> 0,
                                    total_emotional_score |-> 80 * Len(committee)],
                                   committee, config)} :
       IF ~voting.success
       THEN EpochEnds("quorum_failed", epoch, committee, Some(block), Some(voting),
                      assessed, proposals, votes, slashing_events, None)
       ELSE EpochEnds("ok", epoch, committee, Some(block), Some(voting),
                      assessed, proposals, votes, slashing_events,
                      Some(FinalizedBlock(block, voting, now)))

NextStrength ==
    \/ RegisterNext
    \/ Start
    \/ \E approved_count \in 0..Min(config.committee_size, Len(validators)) :
           EpochOfTally(approved_count)

SpecStrength == InitStrength /\ [][NextStrength]_vars

(***************************************************************************)
(* SpecEpochs: the engine with one validator over MaxLoopTicks ticks of    *)
(* the epoch loop, with checkpoints and crash recovery.                    *)
(***************************************************************************)
InitEpochs ==
    /\ config = NewConfig(1, MIN_BYZANTINE_THRESHOLD)
    /\ EngineNew /\ DetectorNew /\ CheckpointNew /\ LedgerNew /\ ForkDetectorNew
    /\ last_op = [op |-> "new"]

NextEpochs ==
    \/ RegisterValidator("v1", MIN_VALIDATOR_STAKE, 1)
    \/ SubmitTransaction("t1", FALSE)
    \/ Start
    \/ \E score \in ScoreSet :
           ticks < MaxLoopTicks /\ EpochLoopTick([id \in ValidatorIds |-> score])
    \/ \E i \in 1..Len(finalized_blocks) : CreateCheckpoint(i, "signed")
    \/ RecoverFromCrash(1)

SpecEpochs == InitEpochs /\ [][NextEpochs]_vars

(***************************************************************************)
(* SpecPool: the engine with one validator and a pending pool of up to     *)
(* MaxPoolSize transactions, valid and invalid, fresh and expired.         *)
(***************************************************************************)
PoolTxHashes == {"t1", "t2"}

PoolSubmit(hash, valid) ==
    /\ Len(pending_transactions) < MaxPoolSize
    /\ submit_transaction([hash |-> hash, valid |-> valid, timestamp |-> now])

NextPool ==
    \/ RegisterValidator("v1", MIN_VALIDATOR_STAKE, 1)
    \/ \E hash \in PoolTxHashes, valid \in BOOLEAN : PoolSubmit(hash, valid)
    \/ AdvanceTime
    \/ Start
    \/ \E scores \in [ValidatorIds -> ScoreSet] : EpochTick(scores)
    \/ CleanupTransactionPool

SpecPool == Init /\ [][NextPool]_vars

(***************************************************************************)
(* Properties of the engine.                                               *)
(***************************************************************************)
\* A step in which the epoch loop executed an epoch.
EpochExecuted == ticks' = ticks + 1 /\ last_op'.op = "execute_epoch"

\* C1: the finalized log is a continuous chain: the first block has height 1
\* and the previous_hash of 64 zeros, every later block has the height of
\* its predecessor plus one and its predecessor's hash as previous_hash, and
\* no two blocks share a height.
C1_ChainContinuity ==
    /\ finalized_blocks # <<>> =>
           /\ finalized_blocks[1].header.height = 1
           /\ finalized_blocks[1].header.previous_hash = GenesisPreviousHash
    /\ \A i \in 2..Len(finalized_blocks) :
           /\ finalized_blocks[i].header.height =
                  finalized_blocks[i - 1].header.height + 1
           /\ finalized_blocks[i].header.previous_hash = finalized_blocks[i - 1].hash
    /\ \A i, j \in 1..Len(finalized_blocks) :
           i # j => finalized_blocks[i].header.height # finalized_blocks[j].header.height

\* A log of two blocks with different contents, the second finalized in a
\* later epoch than the first.
C1_Witness ==
    /\ Len(finalized_blocks) = 2
    /\ finalized_blocks[2].header.previous_hash = finalized_blocks[1].hash
    /\ finalized_blocks[2].header.epoch > finalized_blocks[1].header.epoch
    /\ finalized_blocks[2].hash # finalized_blocks[1].hash

\* C3: an epoch that is aborted (no eligible validator, double-sign at the
\* proposal, or quorum not reached) leaves the finalized log and
\* state.last_finalized_height exactly as they were before it started.
C3_AbortLeavesChain ==
    [][(EpochExecuted
        /\ last_op'.result \in {"no_eligible", "double_sign", "quorum_failed"})
       => /\ finalized_blocks' = finalized_blocks
          /\ state'.last_finalized_height = state.last_finalized_height]_vars

\* An epoch that failed its quorum over a log that holds a block.
C3_Witness ==
    /\ last_op.op = "execute_epoch"
    /\ last_op.result = "quorum_failed"
    /\ Len(finalized_blocks) = 1
    /\ state.last_finalized_height = 1

\* C4: after an epoch aborted for lack of quorum, the same primary proposing
\* a new block (different hash) at the same, still unfinalized height in the
\* next epoch is accepted by the detector, is not slashed, and the epoch
\* proceeds to voting.
C4_FreshRound ==
    [][(/\ last_op.op = "execute_epoch"
        /\ last_op.result = "quorum_failed"
        /\ EpochExecuted
        /\ last_op'.epoch = last_op.epoch + 1
        /\ last_op'.proposed # None
        /\ last_op'.committee[1] = last_op.committee[1]
        /\ last_op'.proposed[1].header.height = last_op.proposed[1].header.height
        /\ last_op'.proposed[1].hash # last_op.proposed[1].hash)
       => /\ last_op'.result \in {"quorum_failed", "ok", "panic"}
          /\ slashing_events' = slashing_events
          /\ \A i \in 1..Len(validators) :
                 validators[i].id = last_op.committee[1] =>
                     validators'[i].reputation = validators[i].reputation]_vars

\* C5: epochs in the finalized log never decrease, and state.current_epoch
\* never decreases, over epoch executions and recover_from_crash calls.
C5_EpochMonotonic ==
    /\ [](\A i \in 2..Len(finalized_blocks) :
              finalized_blocks[i].header.epoch >= finalized_blocks[i - 1].header.epoch)
    /\ [][state'.current_epoch >= state.current_epoch]_vars

\* The log is a continuous chain: heights rise by one and every block names
\* the hash of the block before it.
ContinuousChain(blocks) ==
    \A i \in 2..Len(blocks) :
        /\ blocks[i].header.height = blocks[i - 1].header.height + 1
        /\ blocks[i].header.previous_hash = blocks[i - 1].hash

\* The checkpoint is valid: it is signed, every signature verifies over its
\* payload and the signed stake passes the 67% gate of a known total.
ValidCheckpoint(checkpoint, total_stake) ==
    /\ checkpoint.validator_signatures # <<>>
    /\ VerifyingSignatures(checkpoint.validator_signatures,
                           PayloadOf(checkpoint.height, checkpoint.block_hash,
                                     checkpoint.epoch, checkpoint.state_root))
           = 1..Len(checkpoint.validator_signatures)
    /\ total_stake > 0 =>
           checkpoint.total_stake_signed * 100 >= MINIMUM_STAKE_PERCENTAGE * total_stake

\* A step of recover_from_crash.
Recovered ==
    /\ last_op'.op = "recover_from_crash"
    /\ UNCHANGED <<config, validators, finalized_blocks, pending_transactions, metrics,
                   now, is_running, epoch_loop, ticks, checkpoint_vars>>

\* C15: recover_from_crash, when the latest checkpoint is valid at height c
\* and the finalized log is a continuous chain reaching height n >= c,
\* returns Ok with state.last_finalized_height = n, and every finalized
\* block above c is then recorded in the fork detector.
C15_Recovery ==
    [][(/\ Recovered
        /\ checkpoints # <<>>
        /\ ValidCheckpoint(checkpoints[Len(checkpoints)], total_network_stake)
        /\ finalized_blocks # <<>>
        /\ ContinuousChain(finalized_blocks)
        /\ finalized_blocks[Len(finalized_blocks)].header.height
               >= checkpoints[Len(checkpoints)].height)
       => /\ last_op'.ok
          /\ state'.last_finalized_height =
                 finalized_blocks[Len(finalized_blocks)].header.height
          /\ \A i \in 1..Len(finalized_blocks) :
                 finalized_blocks[i].header.height > checkpoints[Len(checkpoints)].height
                     => Contains(Lookup(fork_detector'.blocks_at_height,
                                        finalized_blocks[i].header.height),
                                 finalized_blocks[i].hash)]_vars

(***************************************************************************)
(* SpecLocks: the operations that hold more than one lock at a time, step  *)
(* by step.  A step is what a task does between two suspension points: it  *)
(* is granted the lock it awaits and runs on to the next .await or to its  *)
(* return, where its guards are dropped.  tasks maps each operation to the *)
(* lock its caller awaits ("idle" between calls), the guards it holds in   *)
(* the order it took them, and its argument.  Each lock has one reader at  *)
(* most here, so a read guard excludes the other tasks like a write guard. *)
(***************************************************************************)
LockTasks ==
    {"submit_transaction", "cleanup_transaction_pool", "finalize_block", "validate_state"}

Idle == [at |-> "idle", held |-> <<>>, arg |-> None]

InitLocks ==
    /\ config = NewConfig(1, MIN_BYZANTINE_THRESHOLD)
    /\ validators = <<>>
    /\ state = [current_epoch |-> 0, consensus_strength |-> 0, emotional_fitness |-> 0,
                participation_rate |-> 0, last_finalized_height |-> 0,
                pending_transactions |-> 0]
    /\ finalized_blocks = <<>>
    /\ pending_transactions = <<>>
    /\ metrics = [total_epochs |-> 0, successful_epochs |-> 0, failed_epochs |-> 0,
                  byzantine_failures |-> 0, blocks_finalized |-> 0,
                  transactions_processed |-> 0]
    /\ now = 0
    /\ is_running = FALSE
    /\ epoch_loop = "none"
    /\ ticks = 0
    /\ tasks = [t \in LockTasks |-> Idle]
    /\ DetectorNew /\ CheckpointNew /\ LedgerNew /\ ForkDetectorNew
    /\ last_op = [op |-> "new"]

\* Some task holds a guard of the lock.
Locked(lock) ==
    \E t \in LockTasks : \E i \in DOMAIN tasks[t].held : tasks[t].held[i] = lock

\* The operation is called: its task comes to its first .await.
Awaits(t, lock, arg) ==
    /\ tasks[t].at = "idle"
    /\ tasks' = [tasks EXCEPT ![t] = [at |-> lock, held |-> <<>>, arg |-> arg]]
    /\ last_op' = [op |-> t, step |-> "call"]

\* The task is granted the lock it awaits and runs on to the .await of
\* `next`, or to its return ("idle"), which drops its guards.
Acquires(t, lock, next) ==
    /\ tasks[t].at = lock
    /\ ~Locked(lock)
    /\ tasks' = [tasks EXCEPT ![t] =
                    IF next = "idle" THEN Idle
                    ELSE [@ EXCEPT !.at = next, !.held = Append(@, lock)]]
    /\ last_op' = [op |-> t, step |-> "acquire", lock |-> lock,
                   holding |-> tasks[t].held]

\* submit_transaction is called with a transaction created now.
LkSubmitCalled(hash) ==
    /\ Len(pending_transactions) < MaxPending
    /\ Awaits("submit_transaction", "pending_transactions",
              Some([hash |-> hash, valid |-> TRUE, timestamp |-> now]))
    /\ UNCHANGED <<config, validators, state, finalized_blocks, pending_transactions,
                   metrics, now, is_running, epoch_loop, ticks>>
    /\ UNCHANGED <<detector_vars, checkpoint_vars, ledger_vars, fork_detector>>

\* submit_transaction: pending_transactions.lock().await, the push.
LkSubmitLocksPending ==
    /\ Acquires("submit_transaction", "pending_transactions", "state")
    /\ pending_transactions' =
           Append(pending_transactions, tasks["submit_transaction"].arg[1])
    /\ UNCHANGED <<config, validators, state, finalized_blocks, metrics, now,
                   is_running, epoch_loop, ticks>>
    /\ UNCHANGED <<detector_vars, checkpoint_vars, ledger_vars, fork_detector>>

\* submit_transaction: state.write().await, the count, the return.
LkSubmitLocksState ==
    /\ tasks["submit_transaction"].held = <<"pending_transactions">>
    /\ Acquires("submit_transaction", "state", "idle")
    /\ state' = [state EXCEPT !.pending_transactions = Len(pending_transactions)]
    /\ UNCHANGED <<config, validators, finalized_blocks, pending_transactions, metrics,
                   now, is_running, epoch_loop, ticks>>
    /\ UNCHANGED <<detector_vars, checkpoint_vars, ledger_vars, fork_detector>>

\* The cleaner of a running engine calls cleanup_transaction_pool.
LkCleanupCalled ==
    /\ is_running
    /\ Awaits("cleanup_transaction_pool", "pending_transactions", None)
    /\ UNCHANGED <<config, validators, state, finalized_blocks, pending_transactions,
                   metrics, now, is_running, epoch_loop, ticks>>
    /\ UNCHANGED <<detector_vars, checkpoint_vars, ledger_vars, fork_detector>>

\* cleanup_transaction_pool: pending_transactions.lock().await, the sweep;
\* it returns unless the sweep removed something.
LkCleanupLocksPending ==
    /\ \E swept \in {SweptPool(pending_transactions, now)} :
           /\ Acquires("cleanup_transaction_pool", "pending_transactions",
                       IF Len(swept) < Len(pending_transactions) THEN "state"
                       ELSE "idle")
           /\ pending_transactions' = swept
    /\ UNCHANGED <<config, validators, state, finalized_blocks, metrics, now,
                   is_running, epoch_loop, ticks>>
    /\ UNCHANGED <<detector_vars, checkpoint_vars, ledger_vars, fork_detector>>

\* cleanup_transaction_pool: state.write().await, the count, the return.
LkCleanupLocksState ==
    /\ tasks["cleanup_transaction_pool"].held = <<"pending_transactions">>
    /\ Acquires("cleanup_transaction_pool", "state", "idle")
    /\ state' = [state EXCEPT !.pending_transactions = Len(pending_transactions)]
    /\ UNCHANGED <<config, validators, finalized_blocks, pending_transactions, metrics,
                   now, is_running, epoch_loop, ticks>>
    /\ UNCHANGED <<detector_vars, checkpoint_vars, ledger_vars, fork_detector>>

\* The vote of the one-member committee on its primary's block.
LkVoting ==
    [success |-> TRUE, approved_count |-> 1, required_votes |-> 1,
     consensus_strength |-> 100, participant_count |-> 1, byzantine_count |-> 0,
     average_emotional_score |-> DEFAULT_EMOTIONAL_THRESHOLD,
     participants |-> <<validators[1].id>>]

\* An epoch of the running engine comes to finalize_block.  Its earlier
\* phases held one lock at a time: they took the epoch number, the pool's
\* transactions and the log's last block while no other task held these.
\* The task carries the block with its metadata and the participation rate
\* of the registry, whose one validator is registered by then.
LkFinalizeCalled ==
    /\ is_running /\ epoch_loop = "running"
    /\ validators # <<>>
    /\ ticks < MaxLockEpochs
    /\ ~Locked("state") /\ ~Locked("pending_transactions") /\ ~Locked("finalized_blocks")
    /\ state' = [state EXCEPT !.current_epoch = @ + 1]
    /\ Awaits("finalize_block", "finalized_blocks",
              <<FinalizedBlock(
                    ProposedBlock(validators, <<validators[1].id>>, finalized_blocks,
                                  pending_transactions, state.current_epoch + 1, now),
                    LkVoting, now),
                Percentage(LkVoting.participant_count, Len(validators))>>)
    /\ UNCHANGED <<config, validators, finalized_blocks, pending_transactions, metrics,
                   now, is_running, epoch_loop, ticks>>
    /\ UNCHANGED <<detector_vars, checkpoint_vars, ledger_vars, fork_detector>>

\* finalize_block: finalized_blocks.write().await, the push.
LkFinalizeLocksBlocks ==
    /\ Acquires("finalize_block", "finalized_blocks", "state")
    /\ finalized_blocks' = Append(finalized_blocks, tasks["finalize_block"].arg[1])
    /\ UNCHANGED <<config, validators, state, pending_transactions, metrics, now,
                   is_running, epoch_loop, ticks>>
    /\ UNCHANGED <<detector_vars, checkpoint_vars, ledger_vars, fork_detector>>

\* finalize_block: state.write().await, the block's height and tally.
LkFinalizeLocksState ==
    /\ tasks["finalize_block"].held = <<"finalized_blocks">>
    /\ Acquires("finalize_block", "state", "pending_transactions")
    /\ \E voting \in {tasks["finalize_block"].arg[1].consensus_metadata[1]} :
           state' = [state EXCEPT
                        !.last_finalized_height =
                            tasks["finalize_block"].arg[1].header.height,
                        !.consensus_strength = voting.consensus_strength,
                        !.emotional_fitness = voting.emotional_fitness,
                        !.participation_rate = tasks["finalize_block"].arg[2]]
    /\ UNCHANGED <<config, validators, finalized_blocks, pending_transactions, metrics,
                   now, is_running, epoch_loop, ticks>>
    /\ UNCHANGED <<detector_vars, checkpoint_vars, ledger_vars, fork_detector>>

\* finalize_block: pending_transactions.lock().await, the retain, the count.
LkFinalizeLocksPending ==
    /\ tasks["finalize_block"].held = <<"finalized_blocks", "state">>
    /\ Acquires("finalize_block", "pending_transactions", "metrics")
    /\ pending_transactions' =
           ReapedPool(pending_transactions, tasks["finalize_block"].arg[1], now)
    /\ state' = [state EXCEPT !.pending_transactions = Len(pending_transactions')]
    /\ UNCHANGED <<config, validators, finalized_blocks, metrics, now, is_running,
                   epoch_loop, ticks>>
    /\ UNCHANGED <<detector_vars, checkpoint_vars, ledger_vars, fork_detector>>

\* finalize_block: metrics.write().await, the counts, the return; the epoch
\* and the loop count the epoch.
LkFinalizeLocksMetrics ==
    /\ tasks["finalize_block"].held = <<"finalized_blocks", "state", "pending_transactions">>
    /\ Acquires("finalize_block", "metrics", "idle")
    /\ metrics' = [metrics EXCEPT
                      !.blocks_finalized = @ + 1,
                      !.transactions_processed =
                          @ + Len(tasks["finalize_block"].arg[1].transactions),
                      !.total_epochs = @ + 1,
                      !.successful_epochs = @ + 1]
    /\ ticks' = ticks + 1
    /\ UNCHANGED <<config, validators, state, finalized_blocks, pending_transactions,
                   now, is_running, epoch_loop>>
    /\ UNCHANGED <<detector_vars, checkpoint_vars, ledger_vars, fork_detector>>

\* recover_from_crash finds no checkpoint and calls validate_state.
LkValidateCalled ==
    /\ checkpoints = <<>>
    /\ Awaits("validate_state", "state", None)
    /\ UNCHANGED <<config, validators, state, finalized_blocks, pending_transactions,
                   metrics, now, is_running, epoch_loop, ticks>>
    /\ UNCHANGED <<detector_vars, checkpoint_vars, ledger_vars, fork_detector>>

\* validate_state: state.read().await.
LkValidateLocksState ==
    /\ Acquires("validate_state", "state", "finalized_blocks")
    /\ UNCHANGED <<config, validators, state, finalized_blocks, pending_transactions,
                   metrics, now, is_running, epoch_loop, ticks>>
    /\ UNCHANGED <<detector_vars, checkpoint_vars, ledger_vars, fork_detector>>

\* validate_state: finalized_blocks.read().await, the checks, the return.
LkValidateLocksBlocks ==
    /\ tasks["validate_state"].held = <<"state">>
    /\ Acquires("validate_state", "finalized_blocks", "idle")
    /\ UNCHANGED <<config, validators, state, finalized_blocks, pending_transactions,
                   metrics, now, is_running, epoch_loop, ticks>>
    /\ UNCHANGED <<detector_vars, checkpoint_vars, ledger_vars, fork_detector>>

\* The steps of the tasks between their call and their return.
LkSubmitStep == LkSubmitLocksPending \/ LkSubmitLocksState
LkCleanupStep == LkCleanupLocksPending \/ LkCleanupLocksState
LkFinalizeStep ==
    \/ LkFinalizeLocksBlocks
    \/ LkFinalizeLocksState
    \/ LkFinalizeLocksPending
    \/ LkFinalizeLocksMetrics
LkValidateStep == LkValidateLocksState \/ LkValidateLocksBlocks


NextLocks ==
    \/ RegisterValidator("v1", MIN_VALIDATOR_STAKE, 1)
    \/ Start
    \/ AdvanceTime
    \/ \E hash \in TxHashes : LkSubmitCalled(hash)
    \/ LkSubmitLocksPending
    \/ LkSubmitLocksState
    \/ LkCleanupCalled
    \/ LkCleanupLocksPending
    \/ LkCleanupLocksState
    \/ LkFinalizeCalled
    \/ LkFinalizeLocksBlocks
    \/ LkFinalizeLocksState
    \/ LkFinalizeLocksPending
    \/ LkFinalizeLocksMetrics
    \/ LkValidateCalled
    \/ LkValidateLocksState
    \/ LkValidateLocksBlocks

SpecLocks == InitLocks /\ [][NextLocks]_vars

\* tokio's Mutex and RwLock grant a lock to its waiters in the order they
\* asked, and the runtime polls every task that can run: a task whose lock
\* is free again and again is granted it.
SpecLocksFair ==
    /\ SpecLocks
    /\ SF_vars(LkSubmitStep)
    /\ SF_vars(LkCleanupStep)
    /\ SF_vars(LkFinalizeStep)
    /\ SF_vars(LkValidateStep)

(***************************************************************************)
(* SpecCommittee: epochs of an engine whose registry holds up to           *)
(* MaxCommitteeValidators validators, registered at any place of the map's *)
(* iteration order, with committees of 2 and 3 members.                    *)
(***************************************************************************)
\* The validator ids, in lexicographic order.
CommitteeIds == <<"v1", "v2", "v3", "v4">>
CommitteeStakes == {MIN_VALIDATOR_STAKE, 4 * MIN_VALIDATOR_STAKE}
CommitteeScores == {70, 80, 90}

InitCommittee ==
    /\ config \in {NewConfig(2, MIN_BYZANTINE_THRESHOLD),
                   NewConfig(3, MIN_BYZANTINE_THRESHOLD)}
    /\ EngineNew /\ DetectorNew /\ CheckpointNew /\ LedgerNew /\ ForkDetectorNew
    /\ last_op = [op |-> "new"]

\* register_validator of a validator the registry does not hold.
CmRegister(id, stake, pos) ==
    /\ Len(validators) < MaxCommitteeValidators
    /\ IndexOf(validators, id) = 0
    /\ RegisterValidator(id, stake, pos)

\* A tick of the epoch loop; the assessment gives each validator its score.
CmEpochTick(scores) ==
    /\ ticks < MaxCommitteeEpochs
    /\ EpochLoopTick([id \in ValidatorIds \cup {CommitteeIds[i] : i \in DOMAIN CommitteeIds} |->
                         IF \E i \in DOMAIN CommitteeIds : CommitteeIds[i] = id
                         THEN scores[CHOOSE i \in DOMAIN CommitteeIds : CommitteeIds[i] = id]
                         ELSE 0])

NextCommittee ==
    \/ \E i \in DOMAIN CommitteeIds, stake \in CommitteeStakes,
          pos \in 1..(Len(validators) + 1) :
           CmRegister(CommitteeIds[i], stake, pos)
    \/ Start
    \/ \E scores \in [DOMAIN CommitteeIds -> CommitteeScores] : CmEpochTick(scores)

SpecCommittee == InitCommittee /\ [][NextCommittee]_vars

(***************************************************************************)
(* SpecByzantine: the epochs of an engine with a committee of two, its     *)
(* checkpoints and its crash recovery; a recovery takes the epoch number   *)
(* back, so that members vote again in an epoch they have voted in.        *)
(***************************************************************************)
InitByzantine ==
    /\ config = NewConfig(2, MIN_BYZANTINE_THRESHOLD)
    /\ EngineNew /\ DetectorNew /\ CheckpointNew /\ LedgerNew /\ ForkDetectorNew
    /\ last_op = [op |-> "new"]

\* register_validator of a validator the registry does not hold, at the end
\* of the iteration order.
ByzRegister(id) ==
    /\ IndexOf(validators, id) = 0
    /\ RegisterValidator(id, MIN_VALIDATOR_STAKE, Len(validators) + 1)

\* One of the first MaxByzantineTicks ticks of the epoch loop.
ByzEpochTick(scores) == ticks < MaxByzantineTicks /\ EpochLoopTick(scores)

NextByzantine ==
    \/ \E id \in ValidatorIds : ByzRegister(id)
    \/ Start
    \/ \E scores \in [ValidatorIds -> ScoreSet] : ByzEpochTick(scores)
    \/ \E i \in 1..Len(finalized_blocks) : CreateCheckpoint(i, "signed")
    \/ RecoverFromCrash(1)

SpecByzantine == InitByzantine /\ [][NextByzantine]_vars

(***************************************************************************)
(* Properties of the pending pool.                                         *)
(***************************************************************************)
\* How often a transaction occurs in a sequence.
CountOf(transactions, tx) ==
    Cardinality({i \in 1..Len(transactions) : transactions[i] = tx})

\* The transactions of the blocks a step appends to the finalized log.
NewlyFinalized ==
    UNION {{finalized_blocks'[i].transactions[j] :
                j \in 1..Len(finalized_blocks'[i].transactions)} :
               i \in (Len(finalized_blocks) + 1)..Len(finalized_blocks')}

\* C21: a transaction of the pending pool stays in it unless it is included
\* in a block finalized by the step or is older than 5 minutes; a submitted
\* transaction joins the pool; an epoch that ends without finalizing (at
\* proposal or for lack of quorum) leaves the pool as it is; and
\* state.pending_transactions is the pool's size.
C21_PendingPool ==
    /\ [](state.pending_transactions = Len(pending_transactions))
    /\ [][/\ \A i \in 1..Len(pending_transactions) :
                 LET tx == pending_transactions[i]
                 IN  \/ CountOf(pending_transactions', tx)
                            >= CountOf(pending_transactions, tx)
                     \/ tx \in NewlyFinalized
                     \/ now - tx.timestamp > MAX_TX_AGE
          /\ Len(pending_transactions') > Len(pending_transactions) =>
                 /\ Len(pending_transactions') = Len(pending_transactions) + 1
                 /\ SubSeq(pending_transactions', 1, Len(pending_transactions))
                        = pending_transactions
          /\ (EpochExecuted /\ last_op'.result # "ok") =>
                 pending_transactions' = pending_transactions]_vars

\* A block holding t1 was finalized in the second epoch, after an epoch that
\* found t1 and an invalid t2 in the pool and failed; a transaction
\* submitted after the clock advanced is alone in the pool.
C21_Witness ==
    /\ Len(finalized_blocks) = 1
    /\ finalized_blocks[1].header.epoch = 2
    /\ Len(finalized_blocks[1].transactions) = 1
    /\ finalized_blocks[1].transactions[1].hash = "t1"
    /\ metrics.failed_epochs = 1
    /\ Len(pending_transactions) = 1
    /\ pending_transactions[1].timestamp = now
    /\ now > 0
    /\ state.pending_transactions = 1

Percent == 0..100

\* C23: every validator's reputation, in the engine and in the ledger, and
\* every stored emotional score (validator profile, block header, vote,
\* consensus metadata, state) lies in 0..=100.
C23_ScoreRange ==
    /\ \A i \in 1..Len(validators) :
           validators[i].reputation \in Percent /\ validators[i].emotional_score \in Percent
    /\ \A id \in DOMAIN ledger : ledger[id].reputation \in Percent
    /\ \A i \in 1..Len(finalized_blocks) :
           /\ finalized_blocks[i].header.emotional_score \in Percent
           /\ finalized_blocks[i].consensus_metadata[1].emotional_fitness \in Percent
    /\ \A key \in DOMAIN votes : \A i \in 1..Len(votes[key]) :
           votes[key][i].emotional_score \in Percent
    /\ state.emotional_fitness \in Percent

\* A block was finalized with the votes of two members; afterwards v1's
\* profile was updated to 100 by readings whose weighted mean is 250, it was
\* slashed below the minimum stake and lost all its reputation; the
\* ledger's entry was slashed twice.
C23_Witness ==
    /\ Len(finalized_blocks) >= 1
    /\ finalized_blocks[1].consensus_metadata[1].participant_count = 2
    /\ \E i, j \in 1..Len(validators) :
           /\ validators[i].id = "v1"
           /\ validators[i].emotional_score = 100 /\ validators[i].reputation = 0
           /\ validators[i].stake \in 1..(MIN_VALIDATOR_STAKE - 1)
           /\ validators[j].id = "v2"
           /\ validators[j].emotional_score \in 1..99
    /\ "v1" \in DOMAIN ledger /\ Len(ledger_events) = MaxLedgerEvents
    /\ ledger["v1"].reputation < INITIAL_REPUTATION

(***************************************************************************)
(* Properties of registration.                                             *)
(***************************************************************************)
\* C24: a registration with a stake below the minimum returns
\* InsufficientStake and leaves the registry as it was, at the engine and at
\* the ledger; at the ledger a registration with a sufficient stake and a
\* commission above 20 returns ConfigError and leaves the registry as it was.
C24_RefusedRegistration ==
    [][/\ (/\ last_op'.op = "engine_register_validator"
           /\ last_op'.arg < config.minimum_stake) =>
              /\ ~last_op'.ok /\ last_op'.err = "InsufficientStake"
              /\ validators' = validators
       /\ (/\ last_op'.op = "register_validator"
           /\ last_op'.arg[1] < MIN_VALIDATOR_STAKE) =>
              /\ ~last_op'.ok /\ last_op'.err = "InsufficientStake"
              /\ ledger' = ledger
       /\ (/\ last_op'.op = "register_validator"
           /\ last_op'.arg[1] >= MIN_VALIDATOR_STAKE
           /\ last_op'.arg[2] > 20) =>
              /\ ~last_op'.ok /\ last_op'.err = "ConfigError"
              /\ ledger' = ledger]_vars

\* Both registries hold v1; the last call was a refused re-registration of
\* v1 at the engine with a stake one below the minimum.
C24_Witness ==
    /\ last_op.op = "engine_register_validator"
    /\ last_op.validator_id = "v1"
    /\ last_op.arg = MIN_VALIDATOR_STAKE - 1
    /\ last_op.err = "InsufficientStake"
    /\ \E i \in 1..Len(validators) :
           validators[i].id = "v1" /\ validators[i].stake >= MIN_VALIDATOR_STAKE
    /\ "v1" \in DOMAIN ledger

\* The ledger holds v1 and refused a registration for its commission of 21.
C24_WitnessLedger ==
    /\ last_op.op = "register_validator"
    /\ last_op.arg = <<MIN_VALIDATOR_STAKE, MAX_COMMISSION + 1>>
    /\ last_op.err = "ConfigError"
    /\ "v1" \in DOMAIN ledger

(***************************************************************************)
(* Properties of the consensus strength.                                   *)
(***************************************************************************)
\* C25: after a successful epoch the consensus strength in the state and in
\* the consensus metadata of the block it finalized is at least the
\* configured byzantine_threshold.
C25_StrengthAtLeastThreshold ==
    (last_op.op = "execute_epoch" /\ last_op.result = "ok") =>
        /\ state.consensus_strength >= config.byzantine_threshold
        /\ finalized_blocks[Len(finalized_blocks)].consensus_metadata[1].consensus_strength
               >= config.byzantine_threshold

(***************************************************************************)
(* Properties of the epoch loop's counters.                                *)
(***************************************************************************)
\* C26: every executed epoch adds one to exactly one of successful_epochs
\* and failed_epochs, so their sum is the number of ticks processed; and the
\* loop goes on after a failed epoch.
C26_EpochCounters ==
    /\ [](metrics.successful_epochs + metrics.failed_epochs = ticks)
    /\ [][EpochExecuted =>
              /\ \/ /\ metrics'.successful_epochs = metrics.successful_epochs + 1
                    /\ metrics'.failed_epochs = metrics.failed_epochs
                 \/ /\ metrics'.successful_epochs = metrics.successful_epochs
                    /\ metrics'.failed_epochs = metrics.failed_epochs + 1
              /\ epoch_loop' = "running"]_vars

(***************************************************************************)
(* Properties of the engine's locks.                                       *)
(***************************************************************************)
\* The task awaits a lock that the other task holds.
WaitsFor(t, other) ==
    /\ tasks[t].at # "idle"
    /\ \E i \in DOMAIN tasks[other].held : tasks[other].held[i] = tasks[t].at

\* The operations on the pending pool and the state of C27.
PoolTasks == {"submit_transaction", "cleanup_transaction_pool", "finalize_block"}

\* C27: submit_transaction, the pool cleaner and finalize_block never come
\* to wait for each other's lock (two of them each awaiting a lock the other
\* holds), and each of them, once called, eventually returns.
C27_NoDeadlock ==
    /\ [](\A t, other \in PoolTasks : ~(WaitsFor(t, other) /\ WaitsFor(other, t)))
    /\ \A t \in PoolTasks : (tasks[t].at # "idle") ~> (tasks[t].at = "idle")

\* The place of a lock in the order finalized log, state, pending pool,
\* metrics.
LockRank(lock) ==
    CASE lock = "finalized_blocks" -> 1
      [] lock = "state" -> 2
      [] lock = "pending_transactions" -> 3
      [] lock = "metrics" -> 4

\* C28: a task that is granted a lock while it holds others holds only locks
\* that come earlier in the order finalized log, state, pending pool,
\* metrics; no task is granted the state lock while it holds the pending
\* pool's.
C28_LockOrder ==
    (last_op.op \in LockTasks /\ last_op.step = "acquire") =>
        \A i \in DOMAIN last_op.holding :
            LockRank(last_op.holding[i]) < LockRank(last_op.lock)

(***************************************************************************)
(* Properties of the committee and its primary.                            *)
(***************************************************************************)
\* The registry as the epoch's assessment leaves it: the stakes and
\* reputations the epoch began with, the scores the epoch gave.
EpochAssessed ==
    [i \in DOMAIN validators |->
        [validators[i] EXCEPT !.emotional_score = validators'[i].emotional_score]]

\* The integer score the selection of the epoch gave the validator.
EpochScore(id) == IntegerScore(EpochAssessed[IndexOf(EpochAssessed, id)])

\* The epoch selected a committee.
CommitteeSelected == EpochExecuted /\ last_op'.committee # <<>>

\* C29: the primary of every epoch, the proposer of its block, has the
\* highest integer score of the committee, whether the committee is the top
\* committee_size of the eligible validators or all of them.
C29_PrimaryHighest ==
    [][(CommitteeSelected /\ last_op'.proposed # None) =>
           \A j \in DOMAIN last_op'.committee :
               EpochScore(last_op'.proposed[1].header.validator_id)
                   >= EpochScore(last_op'.committee[j])]_vars

\* The place of the id in the lexicographic order.
LexPlace(id) == CHOOSE i \in DOMAIN CommitteeIds : CommitteeIds[i] = id

\* C30: the committee of an epoch is min(committee_size, eligible count)
\* distinct eligible validators; every eligible validator left out scores no
\* higher than every member, and where one left out scores the same as a
\* member, the member has the lexicographically smaller id: the committee
\* depends on the eligible set alone.
C30_CommitteeSelection ==
    [][EpochExecuted =>
           LET eligible == EligibleOf(EpochAssessed, config)
               eligible_ids == {eligible[i].id : i \in DOMAIN eligible}
               committee == last_op'.committee
               members == {committee[j] : j \in DOMAIN committee}
           IN  /\ Len(committee) = Min(config.committee_size, Len(eligible))
               /\ Cardinality(members) = Len(committee)
               /\ members \subseteq eligible_ids
               /\ \A out \in eligible_ids \ members : \A in \in members :
                      /\ EpochScore(out) <= EpochScore(in)
                      /\ EpochScore(out) = EpochScore(in) => LexPlace(in) < LexPlace(out)]_vars

(***************************************************************************)
(* Properties of Byzantine detection in an epoch.                          *)
(***************************************************************************)
\* The epoch of this step held its vote on the block it proposed.
VotingHeld ==
    /\ EpochExecuted
    /\ last_op'.result \in {"ok", "quorum_failed", "panic"}

\* The member's validation of the block of this step's epoch succeeds.
MemberApproves(block) ==
    validate_block(block,
                   IF finalized_blocks = <<>> THEN GenesisPreviousHash
                   ELSE finalized_blocks[Len(finalized_blocks)].hash,
                   Len(finalized_blocks) + 1, last_op'.epoch, now) = None

\* The detector holds a vote of the member that conflicts with its vote on
\* the block.
DetectorReports(id, block) ==
    detect_double_voting_internal(
        Lookup(votes, <<id, block.header.epoch>>),
        NewVote(id, block.hash, block.header.epoch, 0, MemberApproves(block))) # None

ReputationOf(vs, id) == vs[IndexOf(vs, id)].reputation

\* C31: a committee member whose vote the detector reports is slashed (its
\* reputation falls by 20, not below 0), its vote is not stored and counts
\* neither as approval nor as participant, the Byzantine count rises by one
\* for each such member, and the votes of the other members are recorded and
\* counted as if it had not been there.
C31_ReportedVoteDropped ==
    [][VotingHeld =>
           LET block == last_op'.proposed[1]
               committee == last_op'.committee
               members == {committee[j] : j \in DOMAIN committee}
               reported == {id \in members : DetectorReports(id, block)}
               counted == members \ reported
           IN  /\ \A id \in reported :
                      /\ ReputationOf(validators', id)
                             = Max(0, ReputationOf(validators, id) - 20)
                      /\ Lookup(votes', <<id, block.header.epoch>>)
                             = Lookup(votes, <<id, block.header.epoch>>)
               /\ \A id \in counted :
                      /\ ReputationOf(validators', id) = ReputationOf(validators, id)
                      /\ Len(Lookup(votes', <<id, block.header.epoch>>))
                             = Len(Lookup(votes, <<id, block.header.epoch>>)) + 1
               /\ counted # {} =>
                      /\ last_op'.voting # None
                      /\ last_op'.voting[1].byzantine_count = Cardinality(reported)
                      /\ last_op'.voting[1].participant_count = Cardinality(counted)
                      /\ last_op'.voting[1].approved_count =
                             IF MemberApproves(block) THEN Cardinality(counted) ELSE 0
                      /\ metrics'.byzantine_failures
                             = metrics.byzantine_failures + Cardinality(reported)]_vars

\* An epoch in which the detector reported one member of the committee and
\* the other member's vote was counted.
C31_Witness ==
    /\ last_op.op = "execute_epoch"
    /\ last_op.voting # None
    /\ Len(last_op.committee) = 2
    /\ last_op.voting[1].byzantine_count = 1
    /\ last_op.voting[1].participant_count = 1
    /\ \E i \in DOMAIN validators : validators[i].reputation = INITIAL_REPUTATION - 20

\* The detector holds a proposal of the primary at the block's height with
\* another hash.
DoubleSignReported(block) ==
    detect_double_signing_internal(
        Lookup(proposals, <<block.header.validator_id, block.header.height>>),
        NewProposal(block.header.validator_id, block.header.height, block.hash)) # None

\* C32: an epoch whose proposal the detector reports as double-signing
\* slashes the primary and ends with an error before any vote: the votes
\* and the finalized log stay as they were and the epoch counts as failed.
C32_DoubleSignAborts ==
    [][(EpochExecuted /\ last_op'.proposed # None
            /\ DoubleSignReported(last_op'.proposed[1])) =>
           LET primary == last_op'.proposed[1].header.validator_id
           IN  /\ last_op'.result = "double_sign"
               /\ last_op'.voting = None
               /\ ReputationOf(validators', primary)
                      = Max(0, ReputationOf(validators, primary) - 20)
               /\ votes' = votes
               /\ finalized_blocks' = finalized_blocks
               /\ state'.last_finalized_height = state.last_finalized_height
               /\ metrics'.failed_epochs = metrics.failed_epochs + 1
               /\ metrics'.blocks_finalized = metrics.blocks_finalized]_vars

\* An epoch ended on a reported double-signing; its primary is slashed.
C32_Witness ==
    /\ last_op.op = "execute_epoch"
    /\ last_op.result = "double_sign"
    /\ ReputationOf(validators, last_op.proposed[1].header.validator_id)
           < INITIAL_REPUTATION

\* C33: the vote of every epoch with a committee returns a VotingResult,
\* also when the detector drops the vote of every member; with no
\* participant the result is a failure and the epoch counts as failed.
C33_VotingReturns ==
    [][VotingHeld =>
           /\ last_op'.result # "panic"
           /\ last_op'.voting # None
           /\ epoch_loop' = "running"
           /\ last_op'.voting[1].participant_count = 0 =>
                  /\ ~last_op'.voting[1].success
                  /\ metrics'.failed_epochs = metrics.failed_epochs + 1]_vars

(***************************************************************************)
(* Properties of the finalized log and the fork detector.                  *)
(***************************************************************************)
\* C34: the fork detector's index of blocks per height holds the hash of
\* every block of the finalized log, at the block's height.
C34_FinalizedBlocksRecorded ==
    \A i \in DOMAIN finalized_blocks :
        Contains(Lookup(fork_detector.blocks_at_height, finalized_blocks[i].header.height),
                 finalized_blocks[i].hash)

\* The detector has recorded one block at each of the heights 1..n and
\* nothing else, and its canonical chain is their hashes in height order.
ChainOfHeights(fd, n) ==
    /\ fd.forks = <<>>
    /\ DOMAIN fd.blocks_at_height = 1..n
    /\ \A h \in 1..n : Len(fd.blocks_at_height[h]) = 1
    /\ fd.canonical_chain = [h \in 1..n |-> fd.blocks_at_height[h][1]]

\* C39: when the detector holds the fork-free blocks of the heights
\* 1..n-1 with their hashes as its canonical chain, record_block of a block
\* at height n appends its hash to the chain, so that the chain of heights
\* 1..n is the n hashes in height order; a block whose recording raises
\* ForkDetected leaves the chain as it is.
C39_CanonicalChain ==
    [][last_op'.op = "record_block" =>
           /\ \A n \in 1..MaxForkBlocks :
                  (/\ ChainOfHeights(fork_detector, n - 1)
                   /\ last_op'.block.header.height = n)
                      => /\ last_op'.ok
                         /\ ChainOfHeights(fork_detector', n)
                         /\ fork_detector'.canonical_chain[n] = last_op'.block.hash
           /\ ~last_op'.ok =>
                  fork_detector'.canonical_chain = fork_detector.canonical_chain]_vars

(***************************************************************************)
(* Properties of the vote of a small committee.                            *)
(***************************************************************************)
\* C35: an epoch in which every member of the committee approves the block
\* and no vote is dropped finalizes the block, whether the committee has
\* committee_size members or fewer.
C35_UnanimousFinalizes ==
    [][(VotingHeld /\ last_op'.voting # None
            /\ last_op'.voting[1].byzantine_count = 0
            /\ last_op'.voting[1].approved_count = Len(last_op'.committee)) =>
           /\ last_op'.result = "ok"
           /\ Len(finalized_blocks') = Len(finalized_blocks) + 1
           /\ finalized_blocks'[Len(finalized_blocks')].hash = last_op'.proposed[1].hash]_vars

\* C36: the state's last_finalized_height is the height of the last block
\* of the finalized log, 0 while the log is empty; epochs and
\* recover_from_crash, returned with Ok or with an error, leave it so.
C36_FinalizedHeight ==
    state.last_finalized_height =
        IF finalized_blocks = <<>> THEN 0
        ELSE finalized_blocks[Len(finalized_blocks)].header.height

(***************************************************************************)
(* Properties of unbonding stake.                                          *)
(***************************************************************************)
\* C37: while a validator is unbonding, the amount begin_unbonding placed
\* in unbonding is part of its locked stake; only complete_unbonding takes
\* it out.
C37_UnbondingStaysLocked ==
    /\ \A id \in DOMAIN ledger :
           ledger[id].unlock_epoch # None =>
               ledger[id].locked_stake >= ledger_unbonding[id]
    /\ (last_op.op \in {"lock_stake", "unlock_stake", "slash_validator"}
            /\ last_op.before # None /\ last_op.before[1].unlock_epoch # None) =>
           ledger[last_op.validator_id].available_stake
               <= last_op.before[1].available_stake

(***************************************************************************)
(* Properties of the stake counted for a checkpoint.                       *)
(***************************************************************************)
\* The validator ids of a signature list.
SigningValidators(validator_signatures) ==
    {validator_signatures[i].validator_id : i \in DOMAIN validator_signatures}

\* The largest stake one validator declares in a signature list.
DeclaredStake(validator_signatures, validator_id) ==
    LET declared == {validator_signatures[i].stake :
                         i \in {j \in DOMAIN validator_signatures :
                                    validator_signatures[j].validator_id = validator_id}}
    IN  CHOOSE s \in declared : \A t \in declared : t <= s

\* The stake of a signature list with each validator id counted once.
RECURSIVE SumDeclared(_, _)
SumDeclared(validator_signatures, ids) ==
    IF ids = {} THEN 0
    ELSE LET id == CHOOSE x \in ids : TRUE
         IN  DeclaredStake(validator_signatures, id)
                 + SumDeclared(validator_signatures, ids \ {id})

DistinctStake(validator_signatures) ==
    SumDeclared(validator_signatures, SigningValidators(validator_signatures))

\* C38: with a known total stake, create_checkpoint stores no checkpoint
\* whose distinct signing validators, each counted once, declare less than
\* 67% of total_network_stake, also when one validator's signature is in
\* the list more than once.
C38_StakeCountedOnce ==
    [][(last_op'.op = "create_checkpoint" /\ total_network_stake > 0
            /\ Len(checkpoints') = Len(checkpoints) + 1) =>
          DistinctStake(last_op'.validator_signatures) * 100
              >= MINIMUM_STAKE_PERCENTAGE * total_network_stake]_vars

(***************************************************************************)
(* Properties of the votes the Byzantine detector stores.                  *)
(***************************************************************************)
\* The votes stored under one key agree on block_hash and approved.
VotesAgree(stored) ==
    \A i, j \in 1..Len(stored) :
        /\ stored[i].block_hash = stored[j].block_hash
        /\ stored[i].approved = stored[j].approved

\* A vote that differs from one stored under its key.
BreaksAgreement(vs, vote) ==
    LET key == <<vote.validator_id, vote.epoch>>
    IN  /\ key \in DOMAIN vs
        /\ \E i \in 1..Len(vs[key]) :
               \/ vs[key][i].block_hash # vote.block_hash
               \/ vs[key][i].approved # vote.approved

\* C40: all votes stored under one (validator, epoch) key carry the same
\* block_hash and the same approved value; record_vote rejects a vote that
\* would break this and does not store it; cleanup_old_data removes only
\* whole keys whose epoch is below the cutoff and leaves the other keys'
\* votes as they were.
C40_StoredVotesAgree ==
    /\ [](\A k \in DOMAIN votes : VotesAgree(votes[k]))
    /\ [][(last_op'.op = "record_vote" /\ BreaksAgreement(votes, last_op'.vote)) =>
              /\ ~last_op'.ok
              /\ votes' = votes]_vars
    /\ [][last_op'.op = "cleanup_old_data" =>
              LET cutoff_epoch == IF last_op'.current_epoch >= last_op'.retention_epochs
                                  THEN last_op'.current_epoch - last_op'.retention_epochs
                                  ELSE 0
              IN  /\ DOMAIN votes' \subseteq DOMAIN votes
                  /\ \A k \in DOMAIN votes \ DOMAIN votes' : k[2] < cutoff_epoch
                  /\ \A k \in DOMAIN votes' : votes'[k] = votes[k]]_vars

\* A vote for another block was rejected while two agreeing votes are
\* stored under its key, and it is not among them.
C40_Witness ==
    /\ last_op.op = "record_vote"
    /\ ~last_op.ok
    /\ LET key == <<last_op.vote.validator_id, last_op.vote.epoch>>
       IN  /\ key \in DOMAIN votes
           /\ Len(votes[key]) = 2
           /\ votes[key][1].block_hash # last_op.vote.block_hash
           /\ \A i \in 1..2 : votes[key][i] # last_op.vote

====
